---- MODULE Spec2Model ----
(***************************************************************************)
(* A model of rdraw's stroke pipeline (src/lib.rs): the Canvas command     *)
(* recorder, PathCache::flatten_paths, calculate_joins and expand_stroke.  *)
(*                                                                         *)
(* Scalar (f32) values are held in fixed point:                            *)
(*   - positions, widths and the fringe in units of 1/Sub pixel;           *)
(*   - unit vectors, ratios and (u,v) in units of 1/One;                   *)
(*   - segment lengths in units of 1/(Sub*One) pixel;                      *)
(*   - angles in units of PI/24;                                           *)
(*   - dist_tol in units of 1/(Sub*TolScale) pixel, tess_tol in 1/Sub.     *)
(* A panic of the Rust program (index out of range, arithmetic overflow in *)
(* a build with overflow checks) is recorded in the variable status.       *)
(***************************************************************************)
EXTENDS Integers, Sequences, FiniteSets, TLC

Sub == 4
One == 200
TolScale == 100

Abs(a) == IF a < 0 THEN -a ELSE a
Sgn(a) == IF a < 0 THEN -1 ELSE IF a > 0 THEN 1 ELSE 0
Min(a, b) == IF a < b THEN a ELSE b
Max(a, b) == IF a > b THEN a ELSE b

\* a / b rounded to the nearest integer, symmetric about zero (b > 0)
RoundDiv(a, b) == Sgn(a) * ((Abs(a) + (b \div 2)) \div b)
\* a / b truncated toward zero (b > 0)
TruncDiv(a, b) == Sgn(a) * (Abs(a) \div b)
CeilDiv(a, b) == IF a <= 0 THEN -(Abs(a) \div b) ELSE (a + b - 1) \div b

RECURSIVE IsqrtIter(_, _, _)
IsqrtIter(n, lo, hi) ==
    IF lo >= hi THEN lo
    ELSE LET mid == (lo + hi + 1) \div 2
         IN  IF mid * mid <= n THEN IsqrtIter(n, mid, hi)
             ELSE IsqrtIter(n, lo, mid - 1)

\* floor of the square root
Isqrt(n) == IsqrtIter(n, 0, Min(n, 46340))

\* the product of a position-scaled and a One-scaled value
MulOne(a, b) == RoundDiv(a * b, One)

(***************************************************************************)
(* Program constants                                                       *)
(***************************************************************************)
POINT_CORNER == 1
POINT_LEFT == 2
POINT_BEVEL == 4
POINT_INNER_BEVEL == 8

\* PI and 2*PI in angle units
PI == 24
_2_PI == 2 * PI

\* stands for std::f32::MAX (and its negation for std::f32::MIN)
F32_MAX == 1000000
\* stands for usize::MAX, the result of casting +inf to usize
USIZE_MAX == 2147483647

MAX_LEVEL == 10
MAX_LINE_WIDTH == 200
DEFAULT_MITER_LIMIT == 10
\* the alpha component 1.0 of a colour, in units of 1/255
ALPHA_ONE == 255
MAX_MITER_SCALE == 600
\* 1 / 1e-6, the steps per pixel of the grid whose step is the epsilon of normalize
INV_EPSILON == 1000000

None == << >>
Some(x) == << x >>

\* cos(k*PI/24) for k = 0..12, in units of 1/One
CosTable == << 200, 198, 193, 185, 173, 159, 141, 122, 100, 77, 52, 26, 0 >>

Cos24(a) ==
    LET k == Abs(a) % 48
        m == IF k > 24 THEN 48 - k ELSE k
    IN  IF m <= 12 THEN CosTable[m + 1] ELSE -CosTable[24 - m + 1]

Sin24(a) == Cos24(a - 12)

\* y.atan2(x): the angle in (-PI, PI] whose direction is nearest to (x, y).
\* Within a quadrant the projection f(k) of (|x|, |y|) on the direction of
\* angle k rises up to the nearest angle and falls after it.
Atan2(y, x) ==
    IF x = 0 /\ y = 0 THEN 0
    ELSE LET ax == Abs(x)
             ay == Abs(y)
             f(k) == ax * Cos24(k) + ay * Sin24(k)
             m == Cardinality({ k \in 0..11 : f(k + 1) > f(k) })
         IN  IF x >= 0 THEN (IF y >= 0 THEN m ELSE -m)
             ELSE (IF y >= 0 THEN PI - m ELSE m - PI)

\* cos(PI/(2k)) for k = 1..12, in millionths
CosHalfPiOver == << 0, 707107, 866025, 923880, 951057, 965926, 974928,
                    980785, 984808, 987688, 989821, 991445 >>

clamp(a, mn, mx) == IF a < mn THEN mn ELSE IF a > mx THEN mx ELSE a

\* curve_divs(r, PI, tol) = max(2, ceil(PI / (2 * acos(r / (r + tol))))):
\* ceil(PI / (2*acos(q))) is the least k with q <= cos(PI/(2k)); acos(1) = 0
\* makes the quotient +inf, which the cast saturates; 0/0 is NaN and casts to 0.
curve_divs(r, tol) ==
    IF r + tol = 0 THEN 2
    ELSE IF tol = 0 THEN USIZE_MAX
    ELSE Max(2, CHOOSE k \in 1..Len(CosHalfPiOver) :
                    /\ r * 1000000 <= CosHalfPiOver[k] * (r + tol)
                    /\ \A j \in 1..(k - 1) : r * 1000000 > CosHalfPiOver[j] * (r + tol))

\* a comparison that takes a point to be different from itself
point_equals_apart(x1, y1, x2, y2, tol) ==
    /\ x1 # x2 \/ y1 # y2
    /\ ((x2 - x1) * (x2 - x1) + (y2 - y1) * (y2 - y1)) * TolScale * TolScale < tol * tol

\* dx*dx + dy*dy < tol*tol
point_equals(x1, y1, x2, y2, tol) ==
    LET dx == x2 - x1
        dy == y2 - y1
    IN  (dx * dx + dy * dy) * TolScale * TolScale < tol * tol

triangle_area2(ax, ay, bx, by, cx, cy) ==
    LET abx == bx - ax
        aby == by - ay
        acx == cx - ax
        acy == cy - ay
    IN  acx * aby - abx * acy

RECURSIVE polygon_area_from(_, _)
polygon_area_from(points, i) ==
    IF i > Len(points) THEN 0
    ELSE triangle_area2(points[1].x, points[1].y, points[i - 1].x, points[i - 1].y,
                        points[i].x, points[i].y)
         + polygon_area_from(points, i + 1)

\* the signed area in half square units (the final * 0.5 is kept exact)
polygon_area(points) == polygon_area_from(points, 3)

\* (nx, ny, len): the direction is left unscaled unless len > 1e-6
normalize(x, y) ==
    LET n == x * x + y * y
        len == Isqrt(n * One * One)
    IN  IF len * 1250 > 1
        THEN << Sgn(x) * Isqrt((x * x * One * One) \div n),
                Sgn(y) * Isqrt((y * y * One * One) \div n), len >>
        ELSE << TruncDiv(x * One, Sub), TruncDiv(y * One, Sub), len >>

\* normalize that returns a zero direction and length at or below the epsilon
normalize_fine_zeroing(x, y) ==
    IF x * x + y * y > 1
    THEN << Sgn(x) * Isqrt((x * x * 10000) \div (x * x + y * y)) * (INV_EPSILON \div 100),
            Sgn(y) * Isqrt((y * y * 10000) \div (x * x + y * y)) * (INV_EPSILON \div 100),
            Isqrt(x * x + y * y) >>
    ELSE << 0, 0, 0 >>

\* normalize on the grid of 1e-6 px, where the epsilon is one step: x, y and
\* the length are in steps and the direction is in units of 1e-6, so that
\* "len > 1e-6" is x*x + y*y > 1 and an unscaled (nx, ny) is (x, y) itself
normalize_fine(x, y) ==
    IF x * x + y * y > 1
    THEN << Sgn(x) * Isqrt((x * x * 10000) \div (x * x + y * y)) * (INV_EPSILON \div 100),
            Sgn(y) * Isqrt((y * y * 10000) \div (x * x + y * y)) * (INV_EPSILON \div 100),
            Isqrt(x * x + y * y) >>
    ELSE << x, y, Isqrt(x * x + y * y) >>

\* EdgeIterMut::next until None: the index pairs (from, to) still to come
RECURSIVE EdgeIterMut_next(_, _, _)
EdgeIterMut_next(n, from, to) ==
    IF to < n THEN << << from, to >> >> \o EdgeIterMut_next(n, to, to + 1) ELSE << >>

\* an iterator over the consecutive pairs only, without the pair that wraps around
edges_iter_mut_open(n) == EdgeIterMut_next(n, 0, 1)

\* the index pairs (from, to) EdgeIterMut yields over a slice of n >= 1 elements
edges_iter_mut(n) == EdgeIterMut_next(n, n - 1, 0)

\* a reversal that leaves the order as it is
ReverseSkipped(s) == s

Reverse(s) == [k \in 1..Len(s) |-> s[Len(s) + 1 - k]]

(***************************************************************************)
(* PathCache: the command pass of flatten_paths                            *)
(***************************************************************************)
NewPoint(x, y, flags) ==
    [x |-> x, y |-> y, dx |-> 0, dy |-> 0, len |-> 0, dmx |-> 0, dmy |-> 0, flags |-> flags]

\* add_path that starts the sub-path at the start of the point buffer
add_path_first_zero(c) ==
    [c EXCEPT !.paths = Append(@, [first |-> 0, count |-> 0, closed |-> FALSE,
                                   winding |-> "CCW", nbevel |-> 0, convex |-> FALSE,
                                   stroke |-> None, fill |-> None])]

add_path(c) ==
    [c EXCEPT !.paths = Append(@, [first |-> Len(c.points), count |-> 0, closed |-> FALSE,
                                   winding |-> "CCW", nbevel |-> 0, convex |-> FALSE,
                                   stroke |-> None, fill |-> None])]

\* add_point that gives the merged point the incoming flags
add_point_flags_replaced(c, x, y, flags, dist_tol) ==
    IF Len(c.paths) = 0 THEN c
    ELSE LET pi == Len(c.paths)
             np == Len(c.points)
         IN  IF /\ c.paths[pi].count > 0
                /\ np > 0
                /\ point_equals(c.points[np].x, c.points[np].y, x, y, dist_tol)
             THEN [c EXCEPT !.points[np].flags = flags]
             ELSE [c EXCEPT !.points = Append(@, NewPoint(x, y, flags)),
                            !.paths[pi].count = @ + 1]

\* add_point that stores the point also when no sub-path was started
add_point_without_path(c, x, y, flags, dist_tol) ==
    IF Len(c.paths) = 0 THEN [c EXCEPT !.points = Append(@, NewPoint(x, y, flags))]
    ELSE LET pi == Len(c.paths)
             np == Len(c.points)
         IN  IF /\ c.paths[pi].count > 0
                /\ np > 0
                /\ point_equals(c.points[np].x, c.points[np].y, x, y, dist_tol)
             THEN [c EXCEPT !.points[np].flags = @ \cup flags]
             ELSE [c EXCEPT !.points = Append(@, NewPoint(x, y, flags)),
                            !.paths[pi].count = @ + 1]

add_point(c, x, y, flags, dist_tol) ==
    IF Len(c.paths) = 0 THEN c
    ELSE LET pi == Len(c.paths)
             np == Len(c.points)
         IN  IF /\ c.paths[pi].count > 0
                /\ np > 0
                /\ point_equals(c.points[np].x, c.points[np].y, x, y, dist_tol)
             THEN [c EXCEPT !.points[np].flags = @ \cup flags]
             ELSE [c EXCEPT !.points = Append(@, NewPoint(x, y, flags)),
                            !.paths[pi].count = @ + 1]

close_path(c) ==
    IF Len(c.paths) = 0 THEN c ELSE [c EXCEPT !.paths[Len(c.paths)].closed = TRUE]

\* path_winding that stores the winding on every sub-path
path_winding_all(c, winding) ==
    [c EXCEPT !.paths = [i \in 1..Len(c.paths) |-> [c.paths[i] EXCEPT !.winding = winding]]]

path_winding(c, winding) ==
    IF Len(c.paths) = 0 THEN c ELSE [c EXCEPT !.paths[Len(c.paths)].winding = winding]

\* a cut-off one level further down
too_deep_late(level) == level > MAX_LEVEL + 1

\* level > 10
too_deep(level) == level > MAX_LEVEL

\* (d2 + d3) * (d2 + d3) <= tess_tol * (dx * dx + dy * dy)
flat_enough_inclusive(d2, d3, dx, dy, tess_tol) ==
    (d2 + d3) * (d2 + d3) <= tess_tol * Sub * (dx * dx + dy * dy)

\* (d2 + d3) * (d2 + d3) < tess_tol * (dx * dx + dy * dy)
flat_enough(d2, d3, dx, dy, tess_tol) ==
    (d2 + d3) * (d2 + d3) < tess_tol * Sub * (dx * dx + dy * dy)

\* what two recursive calls made one after the other did, seen from their caller
tesselate_both(a, b) ==
    [adds |-> a.adds \o b.adds, calls |-> 1 + a.calls + b.calls,
     maxlevel |-> Max(a.maxlevel, b.maxlevel)]

\* What a call of tesselate_bezier does: the points it passes to add_point, in
\* order and each with the level of the call that passes it, the number of
\* calls made and the deepest level a call was entered with.
RECURSIVE tesselate_calls(_, _, _, _, _, _, _, _, _, _, _)
tesselate_calls(x1, y1, x2, y2, x3, y3, x4, y4, level, flags, tess_tol) ==
    IF too_deep(level) THEN [adds |-> << >>, calls |-> 1, maxlevel |-> level]
    ELSE LET x12 == (x1 + x2) \div 2
             y12 == (y1 + y2) \div 2
             x23 == (x2 + x3) \div 2
             y23 == (y2 + y3) \div 2
             x34 == (x3 + x4) \div 2
             y34 == (y3 + y4) \div 2
             x123 == (x12 + x23) \div 2
             y123 == (y12 + y23) \div 2
             dx == x4 - x1
             dy == y4 - y1
         IN  IF flat_enough(Abs((x2 - x4) * dy - (y2 - y4) * dx),
                            Abs((x3 - x4) * dy - (y3 - y4) * dx), dx, dy, tess_tol)
             THEN [adds |-> << [x |-> x4, y |-> y4, flags |-> flags, level |-> level] >>,
                   calls |-> 1, maxlevel |-> level]
             ELSE LET x234 == (x23 + x34) \div 2
                      y234 == (y23 + y34) \div 2
                      x1234 == (x123 + x234) \div 2
                      y1234 == (y123 + y234) \div 2
                  IN  tesselate_both(
                          tesselate_calls(x1, y1, x12, y12, x123, y123, x1234, y1234,
                                          level + 1, {}, tess_tol),
                          tesselate_calls(x1234, y1234, x234, y234, x34, y34, x4, y4,
                                          level + 1, flags, tess_tol))

\* the calls of add_point in adds, from the k-th on; c.addlevel records the
\* deepest level at which tesselate_bezier called add_point (-1 when it never did)
RECURSIVE tesselate_adds(_, _, _, _)
tesselate_adds(c, adds, k, dist_tol) ==
    IF k > Len(adds) THEN c
    ELSE tesselate_adds(
             add_point([c EXCEPT !.addlevel = Max(@, adds[k].level)],
                       adds[k].x, adds[k].y, adds[k].flags, dist_tol),
             adds, k + 1, dist_tol)

\* the cache after the calls r; c.calls counts the calls of tesselate_bezier
\* and c.maxlevel records the deepest level it was entered with
tesselate_done(c, r, dist_tol) ==
    tesselate_adds([c EXCEPT !.maxlevel = Max(@, r.maxlevel), !.calls = @ + r.calls],
                   r.adds, 1, dist_tol)

tesselate_bezier(c0, x1, y1, x2, y2, x3, y3, x4, y4, level, flags, tess_tol, dist_tol) ==
    tesselate_done(c0, tesselate_calls(x1, y1, x2, y2, x3, y3, x4, y4, level, flags, tess_tol),
                   dist_tol)

flatten_command(c, command, tess_tol, dist_tol) ==
    CASE command.op = "MoveTo" ->
            add_point(add_path(c), command.x, command.y, {POINT_CORNER}, dist_tol)
      [] command.op = "LineTo" ->
            add_point(c, command.x, command.y, {POINT_CORNER}, dist_tol)
      [] command.op = "BezierTo" ->
            IF Len(c.points) = 0 THEN c
            ELSE LET last == c.points[Len(c.points)]
                 IN  tesselate_bezier(c, last.x, last.y, command.cp1x, command.cp1y,
                                      command.cp2x, command.cp2y, command.x, command.y,
                                      0, {POINT_CORNER}, tess_tol, dist_tol)
      [] command.op = "Close" -> close_path(c)
      [] command.op = "Winding" -> path_winding(c, command.winding)

RECURSIVE flatten_commands(_, _, _, _, _)
flatten_commands(c, commands, k, tess_tol, dist_tol) ==
    IF k > Len(commands) THEN c
    ELSE flatten_commands(flatten_command(c, commands[k], tess_tol, dist_tol),
                          commands, k + 1, tess_tol, dist_tol)

(***************************************************************************)
(* PathCache: the per-sub-path pass of flatten_paths                       *)
(***************************************************************************)
\* the slice points[first..(first + count)]
SliceOf(points, first, count) == SubSeq(points, first + 1, first + count)

WithSlice(points, first, s) ==
    [k \in 1..Len(points) |->
        IF k > first /\ k <= first + Len(s) THEN s[k - first] ELSE points[k]]

\* the body of the edge loop of flatten_paths for the pair e = (from, to)
flatten_edge(c, first, e) ==
    LET p0i == first + e[1] + 1
        p0 == c.points[p0i]
        p1 == c.points[first + e[2] + 1]
        d == normalize(p1.x - p0.x, p1.y - p0.y)
    IN  [c EXCEPT !.points[p0i].dx = d[1],
                  !.points[p0i].dy = d[2],
                  !.points[p0i].len = d[3],
                  !.bounds = << Min(@[1], p0.x), Min(@[2], p0.y),
                                Max(@[3], p0.x), Max(@[4], p0.y) >>]

RECURSIVE flatten_edges(_, _, _, _)
flatten_edges(c, first, edges, k) ==
    IF k > Len(edges) THEN c
    ELSE flatten_edges(flatten_edge(c, first, edges[k]), first, edges, k + 1)

\* the closing point dropped without marking the sub-path closed
pop_closing_point_left_open(c, i) == [c EXCEPT !.paths[i].count = @ - 1]

\* the last point coincides with the first: path.count -= 1; path.closed = true
pop_closing_point(c, i) == [c EXCEPT !.paths[i].count = @ - 1, !.paths[i].closed = TRUE]

\* One iteration of the loop over self.paths.  overflow_checks tells whether
\* the build panics on arithmetic overflow (debug) or wraps (release): with
\* an empty slice, points.len() - 1 in edges_iter_mut panics or wraps to an
\* iterator that yields nothing.
flatten_path(c, i, dist_tol, overflow_checks) ==
    LET path == c.paths[i]
        first == path.first
    IN
    IF path.count = 0 THEN [c EXCEPT !.panic = "flatten_paths:439"]
    ELSE
    LET p0 == c.points[first + path.count]
        p1 == c.points[first + 1]
        c1 == IF point_equals(p0.x, p0.y, p1.x, p1.y, dist_tol)
              THEN pop_closing_point(c, i)
              ELSE c
        count == c1.paths[i].count
        points == SliceOf(c1.points, first, count)
        area == polygon_area(points)
        c2 == IF /\ count > 2
                 /\ \/ path.winding = "CCW" /\ area < 0
                    \/ path.winding = "CW" /\ area > 0
              THEN [c1 EXCEPT !.points = WithSlice(@, first, Reverse(points))]
              ELSE c1
    IN  IF count = 0
        THEN IF overflow_checks THEN [c2 EXCEPT !.panic = "edges_iter_mut:1053"] ELSE c2
        ELSE flatten_edges(c2, first, edges_iter_mut(count), 1)

RECURSIVE flatten_each_path(_, _, _, _)
flatten_each_path(c, i, dist_tol, overflow_checks) ==
    IF i > Len(c.paths) \/ c.panic # "" THEN c
    ELSE flatten_each_path(flatten_path(c, i, dist_tol, overflow_checks),
                           i + 1, dist_tol, overflow_checks)

flatten_paths(c, commands, tess_tol, dist_tol, overflow_checks) ==
    LET c1 == flatten_commands(c, commands, 1, tess_tol, dist_tol)
        c2 == [c1 EXCEPT !.bounds = << F32_MAX, F32_MAX, -F32_MAX, -F32_MAX >>]
    IN  flatten_each_path(c2, 1, dist_tol, overflow_checks)

(***************************************************************************)
(* PathCache::calculate_joins                                              *)
(***************************************************************************)
\* The body of the edge loop for the pair e = (from, to) of sub-path i; j
\* carries the cache j.c and the counter j.nleft.
\* the bevel decision taken for every point, hard corner or not
corner_bevel_any_point(corner, dmr2, line_join, miter_limit) ==
    IF \/ dmr2 * miter_limit * miter_limit < One * One
       \/ line_join = "Bevel"
       \/ line_join = "Round"
    THEN {POINT_BEVEL} ELSE {}

\* "Check to see if the corner needs to be beveled"; corner is the CORNER bit
\* kept of the flags, dmr2 is in units of 1/One^2
corner_bevel(corner, dmr2, line_join, miter_limit) ==
    IF /\ corner # {}
       /\ \/ dmr2 * miter_limit * miter_limit < One * One
          \/ line_join = "Bevel"
          \/ line_join = "Round"
    THEN {POINT_BEVEL} ELSE {}

calculate_join(j, i, e, w, line_join, miter_limit) ==
    LET c == j.c
        first == c.paths[i].first
        p0 == c.points[first + e[1] + 1]
        p1i == first + e[2] + 1
        p1 == c.points[p1i]
        dlx0 == p0.dy
        dly0 == -p0.dx
        dlx1 == p1.dy
        dly1 == -p1.dx
        dmx0 == TruncDiv(dlx0 + dlx1, 2)
        dmy0 == TruncDiv(dly0 + dly1, 2)
        dmr2 == dmx0 * dmx0 + dmy0 * dmy0
        \* dmr2 > 1e-6, with dmr2 in units of 1/One^2
        rescale == dmr2 * 25 > 1
        scale == IF rescale THEN Min((One * One * One) \div dmr2, MAX_MITER_SCALE * One) ELSE One
        dmx == IF rescale THEN MulOne(dmx0, scale) ELSE dmx0
        dmy == IF rescale THEN MulOne(dmy0, scale) ELSE dmy0
        corner == IF POINT_CORNER \in p1.flags THEN {POINT_CORNER} ELSE {}
        cross == p1.dx * p0.dy - p0.dx * p1.dy
        left == IF cross > 0 THEN {POINT_LEFT} ELSE {}
        \* (min(len0, len1) * iw).max(1.01), with iw = 1/w when w > 0 and else 0
        limit == Max(IF w > 0 THEN Min(p0.len, p1.len) \div w ELSE 0, (101 * One) \div 100)
        \* dmr2 * limit * limit < 1.0, rearranged to stay within 32 bits
        inner == IF dmr2 = 0 \/ limit * limit <= (One * One * One * One - 1) \div dmr2
                 THEN {POINT_INNER_BEVEL} ELSE {}
        bevel == corner_bevel(corner, dmr2, line_join, miter_limit)
        flags == corner \cup left \cup inner \cup bevel
        extra == IF flags \cap {POINT_BEVEL, POINT_INNER_BEVEL} # {} THEN 1 ELSE 0
    IN  [c |-> [c EXCEPT !.points[p1i].dmx = dmx,
                         !.points[p1i].dmy = dmy,
                         !.points[p1i].flags = flags,
                         !.paths[i].nbevel = @ + extra],
         nleft |-> j.nleft + (IF cross > 0 THEN 1 ELSE 0)]

RECURSIVE calculate_join_edges(_, _, _, _, _, _, _)
calculate_join_edges(j, i, edges, k, w, line_join, miter_limit) ==
    IF k > Len(edges) THEN j
    ELSE calculate_join_edges(calculate_join(j, i, edges[k], w, line_join, miter_limit),
                              i, edges, k + 1, w, line_join, miter_limit)

\* One iteration of the loop over self.paths; nleft is declared before the
\* loop (line 626) and is carried from one sub-path to the next.
calculate_joins_path(j, i, w, line_join, miter_limit, overflow_checks) ==
    LET j0 == [j EXCEPT !.c.paths[i].nbevel = 0]
        count == j.c.paths[i].count
    IN  IF count = 0 /\ overflow_checks
        THEN [j0 EXCEPT !.c.panic = "edges_iter_mut:1053"]
        ELSE LET j1 == IF count = 0 THEN j0
                       ELSE calculate_join_edges(j0, i, edges_iter_mut(count), 1,
                                                 w, line_join, miter_limit)
             IN  [j1 EXCEPT !.c.paths[i].convex = (j1.nleft = count)]

RECURSIVE calculate_joins_each(_, _, _, _, _, _)
calculate_joins_each(j, i, w, line_join, miter_limit, overflow_checks) ==
    IF i > Len(j.c.paths) \/ j.c.panic # "" THEN j
    ELSE calculate_joins_each(
             calculate_joins_path(j, i, w, line_join, miter_limit, overflow_checks),
             i + 1, w, line_join, miter_limit, overflow_checks)

calculate_joins(c, w, line_join, miter_limit, overflow_checks) ==
    calculate_joins_each([c |-> c, nleft |-> 0], 1, w, line_join, miter_limit,
                         overflow_checks).c

(***************************************************************************)
(* Vertex emission: caps and joins                                         *)
(***************************************************************************)
add_vert(verts, x, y, u, v) == Append(verts, [x |-> x, y |-> y, u |-> u, v |-> v])

\* 0.5 and 1.0 as (u,v) values
HALF == One \div 2

choose_bevel(bevel, p0, p1, w) ==
    IF bevel
    THEN << p1.x + MulOne(p0.dy, w), p1.y - MulOne(p0.dx, w),
            p1.x + MulOne(p1.dy, w), p1.y - MulOne(p1.dx, w) >>
    ELSE << p1.x + MulOne(p1.dmx, w), p1.y + MulOne(p1.dmy, w),
            p1.x + MulOne(p1.dmx, w), p1.y + MulOne(p1.dmy, w) >>

\* the branch of bevel_join for a left turn; l is (lx0, ly0, lx1, ly1)
bevel_join_left(verts, p0, p1, l, rw, lu, ru) ==
    LET dlx0 == p0.dy
        dly0 == -p0.dx
        dlx1 == p1.dy
        dly1 == -p1.dx
        a1 == add_vert(verts, l[1], l[2], lu, One)
        a2 == add_vert(a1, p1.x - MulOne(dlx0, rw), p1.y - MulOne(dly0, rw), ru, One)
        b3 == add_vert(a2, l[1], l[2], lu, One)
        b4 == add_vert(b3, p1.x - MulOne(dlx0, rw), p1.y - MulOne(dly0, rw), ru, One)
        b5 == add_vert(b4, l[3], l[4], lu, One)
        b6 == add_vert(b5, p1.x - MulOne(dlx1, rw), p1.y - MulOne(dly1, rw), ru, One)
        rx0 == p1.x - MulOne(p1.dmx, rw)
        ry0 == p1.y - MulOne(p1.dmy, rw)
        m3 == add_vert(a2, p1.x, p1.y, HALF, One)
        m4 == add_vert(m3, p1.x - MulOne(dlx0, rw), p1.y - MulOne(dly0, rw), ru, One)
        m5 == add_vert(m4, rx0, ry0, ru, One)
        m6 == add_vert(m5, rx0, ry0, ru, One)
        m7 == add_vert(m6, p1.x, p1.y, HALF, One)
        m8 == add_vert(m7, p1.x - MulOne(dlx1, rw), p1.y - MulOne(dly1, rw), ru, One)
        z1 == add_vert(IF POINT_BEVEL \in p1.flags THEN b6 ELSE m8, l[3], l[4], lu, One)
    IN  add_vert(z1, p1.x - MulOne(dlx1, rw), p1.y - MulOne(dly1, rw), ru, One)

\* the other branch of bevel_join; r is (rx0, ry0, rx1, ry1)
bevel_join_right(verts, p0, p1, r, lw, lu, ru) ==
    LET dlx0 == p0.dy
        dly0 == -p0.dx
        dlx1 == p1.dy
        dly1 == -p1.dx
        a1 == add_vert(verts, p1.x + MulOne(dlx0, lw), p1.y + MulOne(dly0, lw), lu, One)
        a2 == add_vert(a1, r[1], r[2], ru, One)
        b3 == add_vert(a2, p1.x + MulOne(dlx0, lw), p1.y + MulOne(dly0, lw), lu, One)
        b4 == add_vert(b3, r[1], r[2], ru, One)
        b5 == add_vert(b4, p1.x + MulOne(dlx1, lw), p1.y + MulOne(dly1, lw), lu, One)
        b6 == add_vert(b5, r[3], r[4], ru, One)
        lx0 == p1.x + MulOne(p1.dmx, lw)
        ly0 == p1.y + MulOne(p1.dmy, lw)
        m3 == add_vert(a2, p1.x + MulOne(dlx0, lw), p1.y + MulOne(dly0, lw), lu, One)
        m4 == add_vert(m3, p1.x, p1.y, HALF, One)
        m5 == add_vert(m4, lx0, ly0, lu, One)
        m6 == add_vert(m5, lx0, ly0, lu, One)
        m7 == add_vert(m6, p1.x + MulOne(dlx1, lw), p1.y + MulOne(dly1, lw), lu, One)
        m8 == add_vert(m7, p1.x, p1.y, HALF, One)
        z1 == add_vert(IF POINT_BEVEL \in p1.flags THEN b6 ELSE m8,
                       p1.x + MulOne(dlx1, lw), p1.y + MulOne(dly1, lw), lu, One)
    IN  add_vert(z1, r[3], r[4], ru, One)

bevel_join(verts, p0, p1, lw, rw, lu, ru, fringe) ==
    IF POINT_LEFT \in p1.flags
    THEN bevel_join_left(verts, p0, p1,
                         choose_bevel(POINT_INNER_BEVEL \in p1.flags, p0, p1, lw), rw, lu, ru)
    ELSE bevel_join_right(verts, p0, p1,
                          choose_bevel(POINT_INNER_BEVEL \in p1.flags, p0, p1, -rw), lw, lu, ru)

\* the number of steps rounded down instead of up
arc_steps_floor(sweep, ncap) == clamp((sweep * ncap) \div PI, 2, ncap)

\* clamp(ceil(((swept angle) / PI) * ncap) as usize, 2, ncap)
arc_steps(sweep, ncap) == clamp(CeilDiv(sweep * ncap, PI), 2, ncap)

\* a0 + u * (a1 - a0) with u = i / (n - 1)
arc_angle(a0, a1, i, n) == a0 + RoundDiv(i * (a1 - a0), n - 1)

\* the loop "for i in 0..n" of the left-turn branch of round_join
RECURSIVE round_join_left_fan(_, _, _, _, _, _, _, _)
round_join_left_fan(verts, p1, a0, a1, i, n, rw, ru) ==
    IF i >= n THEN verts
    ELSE round_join_left_fan(
             add_vert(add_vert(verts, p1.x, p1.y, HALF, One),
                      p1.x + MulOne(Cos24(arc_angle(a0, a1, i, n)), rw),
                      p1.y + MulOne(Sin24(arc_angle(a0, a1, i, n)), rw), ru, One),
             p1, a0, a1, i + 1, n, rw, ru)

\* the loop "for i in 0..n" of the other branch of round_join
RECURSIVE round_join_right_fan(_, _, _, _, _, _, _, _)
round_join_right_fan(verts, p1, a0, a1, i, n, lw, lu) ==
    IF i >= n THEN verts
    ELSE round_join_right_fan(
             add_vert(add_vert(verts,
                               p1.x + MulOne(Cos24(arc_angle(a0, a1, i, n)), lw),
                               p1.y + MulOne(Sin24(arc_angle(a0, a1, i, n)), lw), lu, One),
                      p1.x, p1.y, HALF, One),
             p1, a0, a1, i + 1, n, lw, lu)

\* The branch of round_join for a left turn; l is (lx0, ly0, lx1, ly1), a0 the
\* start angle and a1r the end angle before it is brought below a0.
round_join_left(verts, p0, p1, l, rw, lu, ru, ncap, a0, a1r) ==
    LET dlx0 == p0.dy
        dly0 == -p0.dx
        dlx1 == p1.dy
        dly1 == -p1.dx
        a1 == IF a1r > a0 THEN a1r - _2_PI ELSE a1r
        v1 == add_vert(verts, l[1], l[2], lu, One)
        v2 == add_vert(v1, p1.x - MulOne(dlx0, rw), p1.y - MulOne(dly0, rw), ru, One)
        v3 == round_join_left_fan(v2, p1, a0, a1, 0, arc_steps(a0 - a1, ncap), rw, ru)
        v4 == add_vert(v3, l[3], l[4], lu, One)
    IN  add_vert(v4, p1.x - MulOne(dlx1, rw), p1.y - MulOne(dly1, rw), ru, One)

\* The other branch of round_join; r is (rx0, ry0, rx1, ry1), a0 the start
\* angle and a1r the end angle before it is brought above a0.
round_join_right(verts, p0, p1, r, lw, rw, lu, ru, ncap, a0, a1r) ==
    LET dlx0 == p0.dy
        dly0 == -p0.dx
        dlx1 == p1.dy
        dly1 == -p1.dx
        a1 == IF a1r < a0 THEN a1r + _2_PI ELSE a1r
        v1 == add_vert(verts, p1.x + MulOne(dlx0, rw), p1.y + MulOne(dly0, rw), lu, One)
        v2 == add_vert(v1, r[1], r[2], ru, One)
        v3 == round_join_right_fan(v2, p1, a0, a1, 0, arc_steps(a1 - a0, ncap), lw, lu)
        v4 == add_vert(v3, p1.x + MulOne(dlx1, rw), p1.y + MulOne(dly1, rw), lu, One)
    IN  add_vert(v4, r[3], r[4], ru, One)

round_join(verts, p0, p1, lw, rw, lu, ru, ncap, fringe) ==
    IF POINT_LEFT \in p1.flags
    THEN round_join_left(verts, p0, p1,
                         choose_bevel(POINT_INNER_BEVEL \in p1.flags, p0, p1, lw),
                         rw, lu, ru, ncap,
                         Atan2(p0.dx, -p0.dy), Atan2(p1.dx, -p1.dy))
    ELSE round_join_right(verts, p0, p1,
                          choose_bevel(POINT_INNER_BEVEL \in p1.flags, p0, p1, -rw),
                          lw, rw, lu, ru, ncap,
                          Atan2(-p0.dx, p0.dy), Atan2(-p1.dx, p1.dy))

butt_cap_start(verts, p, dx, dy, w, d, aa, u0, u1) ==
    LET px == p.x - MulOne(dx, d)
        py == p.y - MulOne(dy, d)
        dlx == dy
        dly == -dx
        v1 == add_vert(verts, px + MulOne(dlx, w) - MulOne(dx, aa),
                       py + MulOne(dly, w) - MulOne(dy, aa), u0, 0)
        v2 == add_vert(v1, px - MulOne(dlx, w) - MulOne(dx, aa),
                       py - MulOne(dly, w) - MulOne(dy, aa), u1, 0)
        v3 == add_vert(v2, px + MulOne(dlx, w), py + MulOne(dly, w), u0, One)
    IN  add_vert(v3, px - MulOne(dlx, w), py - MulOne(dly, w), u1, One)

butt_cap_end(verts, p, dx, dy, w, d, aa, u0, u1) ==
    LET px == p.x + MulOne(dx, d)
        py == p.y + MulOne(dy, d)
        dlx == dy
        dly == -dx
        v1 == add_vert(verts, px + MulOne(dlx, w), py + MulOne(dly, w), u0, One)
        v2 == add_vert(v1, px - MulOne(dlx, w), py - MulOne(dly, w), u1, One)
        v3 == add_vert(v2, px + MulOne(dlx, w) + MulOne(dx, aa),
                       py + MulOne(dly, w) + MulOne(dy, aa), u0, 0)
    IN  add_vert(v3, px - MulOne(dlx, w) + MulOne(dx, aa),
                 py - MulOne(dly, w) + MulOne(dy, aa), u1, 0)

\* i / (ncap - 1) * PI
cap_angle(i, ncap) == RoundDiv(i * PI, ncap - 1)

\* the loop "for i in 0..ncap" of round_cap_start
RECURSIVE round_cap_start_fan(_, _, _, _, _, _, _, _)
round_cap_start_fan(verts, p, dx, dy, w, i, ncap, u0) ==
    IF i >= ncap THEN verts
    ELSE LET a == cap_angle(i, ncap)
             ax == MulOne(Cos24(a), w)
             ay == MulOne(Sin24(a), w)
             dlx == dy
             dly == -dx
             v1 == add_vert(verts, p.x - MulOne(dlx, ax) - MulOne(dx, ay),
                            p.y - MulOne(dly, ax) - MulOne(dy, ay), u0, One)
         IN  round_cap_start_fan(add_vert(v1, p.x, p.y, HALF, One),
                                 p, dx, dy, w, i + 1, ncap, u0)

round_cap_start(verts, p, dx, dy, w, ncap, aa, u0, u1) ==
    LET dlx == dy
        dly == -dx
        v1 == round_cap_start_fan(verts, p, dx, dy, w, 0, ncap, u0)
        v2 == add_vert(v1, p.x + MulOne(dlx, w), p.y + MulOne(dly, w), u0, One)
    IN  add_vert(v2, p.x - MulOne(dlx, w), p.y - MulOne(dly, w), u1, One)

\* the loop "for i in 0..ncap" of round_cap_end
RECURSIVE round_cap_end_fan(_, _, _, _, _, _, _, _)
round_cap_end_fan(verts, p, dx, dy, w, i, ncap, u0) ==
    IF i >= ncap THEN verts
    ELSE LET a == cap_angle(i, ncap)
             ax == MulOne(Cos24(a), w)
             ay == MulOne(Sin24(a), w)
             dlx == dy
             dly == -dx
             v1 == add_vert(verts, p.x, p.y, HALF, One)
         IN  round_cap_end_fan(add_vert(v1, p.x - MulOne(dlx, ax) + MulOne(dx, ay),
                                        p.y - MulOne(dly, ax) + MulOne(dy, ay), u0, One),
                               p, dx, dy, w, i + 1, ncap, u0)

round_cap_end(verts, p, dx, dy, w, ncap, aa, u0, u1) ==
    LET dlx == dy
        dly == -dx
        v1 == add_vert(verts, p.x + MulOne(dlx, w), p.y + MulOne(dly, w), u0, One)
        v2 == add_vert(v1, p.x - MulOne(dlx, w), p.y - MulOne(dly, w), u1, One)
    IN  round_cap_end_fan(v2, p, dx, dy, w, 0, ncap, u0)

(***************************************************************************)
(* PathCache::expand_stroke                                                *)
(***************************************************************************)
\* reserve_path with the allowance of bevel joins for every kind of join
reserve_path_join_blind(path, line_cap, line_join, ncap) ==
    (path.count + path.nbevel * 5 + 1) * 2
    + (IF ~path.closed
       THEN IF line_cap = "Round" THEN (ncap * 2 + 2) * 2 ELSE (3 + 3) * 2
       ELSE 0)

\* what the "Calculate max vertex usage" loop adds to cverts for one sub-path
reserve_path(path, line_cap, line_join, ncap) ==
    (IF line_join = "Round"
     THEN (path.count + path.nbevel * (ncap + 2) + 1) * 2
     ELSE (path.count + path.nbevel * 5 + 1) * 2)
    + (IF ~path.closed
       THEN IF line_cap = "Round" THEN (ncap * 2 + 2) * 2 ELSE (3 + 3) * 2
       ELSE 0)

\* the body of the join loop that emits the symmetric pair for every point
stroke_join_pair_only(verts, p0, p1, w, u0, u1, ncap, aa, line_join) ==
    add_vert(add_vert(verts, p1.x + MulOne(p1.dmx, w), p1.y + MulOne(p1.dmy, w), u0, One),
             p1.x - MulOne(p1.dmx, w), p1.y - MulOne(p1.dmy, w), u1, One)

\* what one iteration of the loop "for _ in start..end" pushes for the join at p1
stroke_join(verts, p0, p1, w, u0, u1, ncap, aa, line_join) ==
    IF p1.flags \cap {POINT_BEVEL, POINT_INNER_BEVEL} # {}
    THEN IF line_join = "Round"
         THEN round_join(verts, p0, p1, w, w, u0, u1, ncap, aa)
         ELSE bevel_join(verts, p0, p1, w, w, u0, u1, aa)
    ELSE add_vert(add_vert(verts, p1.x + MulOne(p1.dmx, w), p1.y + MulOne(p1.dmy, w), u0, One),
                  p1.x - MulOne(p1.dmx, w), p1.y - MulOne(p1.dmy, w), u1, One)

\* The end of one iteration: p0 = p1; p1_index = p1_index + 1;
\* p1 = &points[p1_index], which panics when p1_index is outside the slice.
stroke_join_advance(r, verts, points) ==
    IF r.p1_index + 1 >= Len(points)
    THEN [r EXCEPT !.verts = verts, !.panic = "expand_stroke:604"]
    ELSE [verts |-> verts, panic |-> "", p0 |-> points[r.p1_index + 1],
          p1_index |-> r.p1_index + 1]

\* The loop "for _ in start..end"; r carries the vertex buffer, p0 and p1_index.
RECURSIVE stroke_joins(_, _, _, _, _, _, _, _, _, _)
stroke_joins(r, points, k, end, w, u0, u1, ncap, aa, line_join) ==
    IF k >= end \/ r.panic # "" THEN r
    ELSE stroke_joins(
             stroke_join_advance(
                 r, stroke_join(r.verts, r.p0, points[r.p1_index + 1],
                                w, u0, u1, ncap, aa, line_join),
                 points),
             points, k + 1, end, w, u0, u1, ncap, aa, line_join)

cap_start(verts, line_cap, p0, dx, dy, w, ncap, aa, u0, u1) ==
    CASE line_cap = "Butt" -> butt_cap_start(verts, p0, dx, dy, w, -(aa \div 2), aa, u0, u1)
      [] line_cap = "Square" -> butt_cap_start(verts, p0, dx, dy, w, w - aa, aa, u0, u1)
      [] line_cap = "Round" -> round_cap_start(verts, p0, dx, dy, w, ncap, aa, u0, u1)

cap_end(verts, line_cap, p1, dx, dy, w, ncap, aa, u0, u1) ==
    CASE line_cap = "Butt" -> butt_cap_end(verts, p1, dx, dy, w, -(aa \div 2), aa, u0, u1)
      [] line_cap = "Square" -> butt_cap_end(verts, p1, dx, dy, w, w - aa, aa, u0, u1)
      [] line_cap = "Round" -> round_cap_end(verts, p1, dx, dy, w, ncap, aa, u0, u1)

\* a vertex range that always starts at the start of the vertex buffer
set_path_stroke_from_zero(c, i, first, verts) ==
    [c EXCEPT !.verts = verts,
              !.paths[i].stroke = Some([first |-> 0, count |-> Len(verts)])]

\* path.stroke = Some(PathVertexRef { first, count: verts.len() - first })
set_path_stroke(c, i, first, verts) ==
    [c EXCEPT !.verts = verts,
              !.paths[i].stroke = Some([first |-> first, count |-> Len(verts) - first])]

\* add_vert(verts, verts[1].x, verts[1].y, u1, 1.0)
loop_second(verts, u1) == add_vert(verts, verts[2].x, verts[2].y, u1, One)

\* "Loop it" (lines 607-611), after the joins of a closed sub-path left r
expand_loop_end(c, i, first, r, u0, u1) ==
    IF r.panic # ""
    THEN [c EXCEPT !.verts = r.verts, !.panic = r.panic]
    ELSE set_path_stroke(c, i, first,
             loop_second(add_vert(r.verts, r.verts[1].x, r.verts[1].y, u0, One), u1))

\* the end cap (lines 612-619), after the joins of an open sub-path left r
expand_open_end(c, i, first, r, points, line_cap, w, ncap, aa, u0, u1) ==
    IF r.panic # ""
    THEN [c EXCEPT !.verts = r.verts, !.panic = r.panic]
    ELSE set_path_stroke(c, i, first,
             cap_end(r.verts, line_cap, points[r.p1_index + 1],
                     normalize(points[r.p1_index + 1].x - r.p0.x,
                               points[r.p1_index + 1].y - r.p0.y)[1],
                     normalize(points[r.p1_index + 1].x - r.p0.x,
                               points[r.p1_index + 1].y - r.p0.y)[2],
                     w, ncap, aa, u0, u1))

\* the joins of an open sub-path without a start cap before them
expand_open_joins_without_cap(verts, points, count, s0, s1, line_cap, line_join, w, ncap, aa, u0, u1) ==
    stroke_joins([verts |-> verts, panic |-> "", p0 |-> s0, p1_index |-> 1],
                 points, 1, count - 1, w, u0, u1, ncap, aa, line_join)

\* the start cap (lines 574-589) and the joins of an open sub-path
expand_open_joins(verts, points, count, s0, s1, line_cap, line_join, w, ncap, aa, u0, u1) ==
    stroke_joins([verts |-> cap_start(verts, line_cap, s0,
                                      normalize(s1.x - s0.x, s1.y - s0.y)[1],
                                      normalize(s1.x - s0.x, s1.y - s0.y)[2],
                                      w, ncap, aa, u0, u1),
                  panic |-> "", p0 |-> s0, p1_index |-> 1],
                 points, 1, count - 1, w, u0, u1, ncap, aa, line_join)

\* the body of the loop over self.paths for a closed sub-path with these points
expand_loop(c, i, points, w, aa, u0, u1, ncap, line_join) ==
    IF Len(points) = 0 THEN [c EXCEPT !.panic = "expand_stroke:569"]
    ELSE expand_loop_end(c, i, Len(c.verts),
             stroke_joins([verts |-> c.verts, panic |-> "",
                           p0 |-> points[Len(points)], p1_index |-> 0],
                          points, 0, Len(points), w, u0, u1, ncap, aa, line_join),
             u0, u1)

\* the body of the loop over self.paths for an open sub-path with these points
expand_open(c, i, points, w, aa, u0, u1, ncap, line_cap, line_join) ==
    IF Len(points) = 0 THEN [c EXCEPT !.panic = "expand_stroke:576"]
    ELSE IF Len(points) = 1 THEN [c EXCEPT !.panic = "expand_stroke:577"]
    ELSE expand_open_end(c, i, Len(c.verts),
             expand_open_joins(c.verts, points, Len(points), points[1], points[2],
                               line_cap, line_join, w, ncap, aa, u0, u1),
             points, line_cap, w, ncap, aa, u0, u1)

\* one iteration of the loop over self.paths (lines 552-622)
expand_path(c, i, w, aa, u0, u1, ncap, line_cap, line_join) ==
    IF c.paths[i].closed
    THEN expand_loop([c EXCEPT !.paths[i].fill = None], i,
                     SliceOf(c.points, c.paths[i].first, c.paths[i].count),
                     w, aa, u0, u1, ncap, line_join)
    ELSE expand_open([c EXCEPT !.paths[i].fill = None], i,
                     SliceOf(c.points, c.paths[i].first, c.paths[i].count),
                     w, aa, u0, u1, ncap, line_cap, line_join)

RECURSIVE expand_each_path(_, _, _, _, _, _, _, _, _)
expand_each_path(c, i, w, aa, u0, u1, ncap, line_cap, line_join) ==
    IF i > Len(c.paths) \/ c.panic # "" THEN c
    ELSE expand_each_path(expand_path(c, i, w, aa, u0, u1, ncap, line_cap, line_join),
                          i + 1, w, aa, u0, u1, ncap, line_cap, line_join)

\* verts.clear() and the loop over self.paths, after the reservation loop
\* computed cverts; c.reserved records what that loop added for each sub-path
expand_verts(c, w, aa, u0, u1, ncap, line_cap, line_join) ==
    expand_each_path(
        [c EXCEPT !.verts = << >>,
                  !.reserved = [i \in 1..Len(c.paths) |->
                                   reserve_path(c.paths[i], line_cap, line_join, ncap)]],
        1, w, aa, u0, u1, ncap, line_cap, line_join)

\* whether the reservation loop uses ncap for some sub-path
ncap_used(c, line_cap, line_join) ==
    \E i \in 1..Len(c.paths) : line_join = "Round" \/ (line_cap = "Round" /\ ~c.paths[i].closed)

\* expand_stroke after calculate_joins returned c.  With ncap = usize::MAX
\* (tess_tol = 0) the reservation for round joins or round caps overflows: a
\* panic with overflow checks, and without them a fan of usize::MAX steps
\* that exhausts memory.
expand_reserved(c, w, aa, u0, u1, ncap, line_cap, line_join) ==
    IF c.panic # "" THEN c
    ELSE IF ncap = USIZE_MAX /\ ncap_used(c, line_cap, line_join)
    THEN [c EXCEPT !.panic = "expand_stroke:532"]
    ELSE expand_verts(c, w, aa, u0, u1, ncap, line_cap, line_join)

\* expand_stroke with (u0, u1) = (1.0, 0.0) under anti-aliasing
expand_stroke_u_swapped(c, w, fringe, line_cap, line_join, miter_limit, tess_tol, overflow_checks) ==
    expand_reserved(
        calculate_joins(c, w + (fringe \div 2), line_join, miter_limit, overflow_checks),
        w + (fringe \div 2), fringe,
        IF fringe = 0 THEN HALF ELSE One,
        IF fringe = 0 THEN HALF ELSE 0,
        curve_divs(w, tess_tol), line_cap, line_join)

expand_stroke(c, w, fringe, line_cap, line_join, miter_limit, tess_tol, overflow_checks) ==
    expand_reserved(
        calculate_joins(c, w + (fringe \div 2), line_join, miter_limit, overflow_checks),
        w + (fringe \div 2), fringe,
        IF fringe = 0 THEN HALF ELSE 0,
        IF fringe = 0 THEN HALF ELSE One,
        curve_divs(w, tess_tol), line_cap, line_join)

(***************************************************************************)
(* Canvas                                                                  *)
(***************************************************************************)
VARIABLES
    commands,          \* Canvas.commands
    state,             \* Canvas.state
    cache,             \* Canvas.cache
    pixels_per_point,  \* Canvas.pixels_per_point, as << numerator, denominator >>
    tess_tol,          \* Canvas.tess_tol
    dist_tol,          \* Canvas.dist_tol
    fringe,            \* Canvas.fringe
    status,            \* "ok", or the place of the panic that ended the program
    trace              \* observations of the calls made so far

vars == << commands, state, cache, pixels_per_point, tess_tol, dist_tol, fringe, status, trace >>

\* bounds of the model: the commands a caller records before it strokes
MaxCmds == 3
MaxPathCmds == 4

Pt(x, y) == [x |-> x, y |-> y]

\* the inputs the callers pass, in position units (40 = 10 pixels)
LineWidths == {2 * Sub}
LineCaps == {"Butt", "Round", "Square"}
LineJoins == {"Round", "Bevel", "Miter"}
Windings == {"CCW", "CW"}
MovePoints == {Pt(0, 0)}
LinePoints == {Pt(4, 0), Pt(40, 0), Pt(40, 40)}
Curves == {<< Pt(8, 8), Pt(16, 8), Pt(24, 0) >>}

MoveToCmd(p) == [op |-> "MoveTo", x |-> p.x, y |-> p.y]
LineToCmd(p) == [op |-> "LineTo", x |-> p.x, y |-> p.y]
BezierToCmd(b) == [op |-> "BezierTo", cp1x |-> b[1].x, cp1y |-> b[1].y,
                   cp2x |-> b[2].x, cp2y |-> b[2].y, x |-> b[3].x, y |-> b[3].y]
CloseCmd == [op |-> "Close"]
WindingCmd(w) == [op |-> "Winding", winding |-> w]

\* State::default()
\* of the paint state.stroke the alpha components of the two colours are kept
DefaultState ==
    [line_width |-> Sub, line_cap |-> "Butt", line_join |-> "Miter",
     miter_limit |-> DEFAULT_MITER_LIMIT,
     stroke |-> [inner_color |-> ALPHA_ONE, outer_color |-> ALPHA_ONE],
     shape_anti_alias |-> TRUE]

\* PathCache::new()
NewPathCache == [points |-> << >>, verts |-> << >>, paths |-> << >>, bounds |-> << 0, 0, 0, 0 >>]

\* strokes and renders count the calls of Canvas::stroke and of the renderer;
\* reserved, calls, maxlevel and addlevel are those of the last stroke; last
\* holds the cache before, and the arguments of, the last call of add_point
\* that was made on its own
\* rendered holds what the last call of the renderer was given
NewTrace ==
    [strokes |-> 0, renders |-> 0, reserved |-> << >>, calls |-> 0, maxlevel |-> -1,
     addlevel |-> -1, last |-> None, rendered |-> None]

\* 0.25 / ppp, 0.01 / ppp and 1.0 / ppp in the units of the three fields
TessTolFor(ppp) == IF ppp[2] = 0 THEN 0 ELSE (ppp[2] * Sub) \div (4 * ppp[1])
DistTolFor(ppp) == IF ppp[2] = 0 THEN 0 ELSE (ppp[2] * Sub * TolScale) \div (100 * ppp[1])
FringeFor(ppp) == IF ppp[2] = 0 THEN 0 ELSE (ppp[2] * Sub) \div ppp[1]

\* Canvas::new(), which ends with set_pixels_per_point(1.0)
Init ==
    /\ commands = << >>
    /\ state = DefaultState
    /\ cache = NewPathCache
    /\ pixels_per_point = << 1, 1 >>
    /\ tess_tol = TessTolFor(<< 1, 1 >>)
    /\ dist_tol = DistTolFor(<< 1, 1 >>)
    /\ fringe = FringeFor(<< 1, 1 >>)
    /\ status = "ok"
    /\ trace = NewTrace

set_pixels_per_point(ppp) ==
    /\ status = "ok"
    /\ pixels_per_point' = ppp
    /\ tess_tol' = TessTolFor(ppp)
    /\ dist_tol' = DistTolFor(ppp)
    /\ fringe' = FringeFor(ppp)
    /\ UNCHANGED << commands, state, cache, status, trace >>

set_line_width(line_width) ==
    /\ status = "ok"
    /\ state' = [state EXCEPT !.line_width = line_width]
    /\ UNCHANGED << commands, cache, pixels_per_point, tess_tol, dist_tol, fringe, status, trace >>

set_line_cap(line_cap) ==
    /\ status = "ok"
    /\ state' = [state EXCEPT !.line_cap = line_cap]
    /\ UNCHANGED << commands, cache, pixels_per_point, tess_tol, dist_tol, fringe, status, trace >>

set_line_join(line_join) ==
    /\ status = "ok"
    /\ state' = [state EXCEPT !.line_join = line_join]
    /\ UNCHANGED << commands, cache, pixels_per_point, tess_tol, dist_tol, fringe, status, trace >>

\* convert_color maps the alpha byte a to a / 255.0
set_stroke_color(a) ==
    /\ status = "ok"
    /\ state' = [state EXCEPT !.stroke = [inner_color |-> a, outer_color |-> a]]
    /\ UNCHANGED << commands, cache, pixels_per_point, tess_tol, dist_tol, fringe, status, trace >>

set_shape_anti_alias(enabled) ==
    /\ status = "ok"
    /\ state' = [state EXCEPT !.shape_anti_alias = enabled]
    /\ UNCHANGED << commands, cache, pixels_per_point, tess_tol, dist_tol, fringe, status, trace >>

begin_path ==
    /\ status = "ok"
    /\ commands' = << >>
    /\ cache' = [cache EXCEPT !.points = << >>, !.paths = << >>]
    /\ UNCHANGED << state, pixels_per_point, tess_tol, dist_tol, fringe, status, trace >>

\* move_to, line_to, bezier_to, close_path and path_winding push one command
push_command(command) ==
    /\ status = "ok"
    /\ commands' = Append(commands, command)
    /\ UNCHANGED << state, cache, pixels_per_point, tess_tol, dist_tol, fringe, status, trace >>

move_to(p) == push_command(MoveToCmd(p))
line_to(p) == push_command(LineToCmd(p))
bezier_to(b) == push_command(BezierToCmd(b))
close_path_cmd == push_command(CloseCmd)
path_winding_cmd(w) == push_command(WindingCmd(w))

\* the cache as the stroke pipeline takes it, with the fields panic, reserved,
\* calls, maxlevel and addlevel that observe the run
observed(c) ==
    [points |-> c.points, verts |-> c.verts, paths |-> c.paths, bounds |-> c.bounds,
     panic |-> "", reserved |-> << >>, calls |-> 0, maxlevel |-> -1, addlevel |-> -1]

\* clamp(state.line_width * scale, 0.0, 200.0), raised to the fringe
stroke_width(line_width, fr) ==
    IF clamp(line_width, 0, MAX_LINE_WIDTH * Sub) < fr
    THEN fr
    ELSE clamp(line_width, 0, MAX_LINE_WIDTH * Sub)

\* stroke_expand that passes the whole line width as w
stroke_expand_full_width(c, line_width, st, fr, ttol, overflow_checks) ==
    IF c.panic # "" THEN c
    ELSE expand_stroke(c, line_width, IF st.shape_anti_alias THEN fr ELSE 0,
                       st.line_cap, st.line_join, st.miter_limit, ttol, overflow_checks)

\* expand_stroke on what flatten_paths left, unless flatten_paths panicked
stroke_expand(c, line_width, st, fr, ttol, overflow_checks) ==
    IF c.panic # "" THEN c
    ELSE expand_stroke(c, line_width \div 2, IF st.shape_anti_alias THEN fr ELSE 0,
                       st.line_cap, st.line_join, st.miter_limit, ttol, overflow_checks)

\* The cache after Canvas::stroke ran in a build with the given overflow behaviour
stroke_run(overflow_checks) ==
    stroke_expand(flatten_paths(observed(cache), commands, tess_tol, dist_tol, overflow_checks),
                  stroke_width(state.line_width, fringe), state, fringe, tess_tol,
                  overflow_checks)

\* The build (overflow checks on or off) changes the run only when the
\* subtraction in edges_iter_mut overflows, which happens first in flatten_paths.
overflow_matters ==
    flatten_paths(observed(cache), commands, tess_tol, dist_tol, TRUE).panic
        = "edges_iter_mut:1053"

\* colour alpha * alpha * alpha with alpha = line_width / fringe
coverage_alpha(a, line_width, fr) == (a * line_width * line_width) \div (fr * fr)

\* The copy of the state that stroke works on: a line width below the fringe
\* scales the alpha of both colours of the copy; line_width is the clamped width.
stroke_style(st, line_width, fr) ==
    IF line_width < fr
    THEN [st EXCEPT !.stroke.inner_color = coverage_alpha(@, line_width, fr),
                    !.stroke.outer_color = coverage_alpha(@, line_width, fr)]
    ELSE st

\* the Path that PathIter::next makes of a sub-path: verts(), closed(), convex()
path_item(c, path) ==
    [verts |-> SubSeq(c.verts, path.stroke[1].first + 1,
                      path.stroke[1].first + path.stroke[1].count),
     closed |-> path.closed, convex |-> path.convex]

\* the Paths that Stroke::path_iter yields, in order
path_iter(c) == [i \in 1..Len(c.paths) |-> path_item(c, c.paths[i])]

\* the Stroke that Canvas::stroke hands to the renderer
stroke_rendered(c) ==
    [state |-> stroke_style(state, clamp(state.line_width, 0, MAX_LINE_WIDTH * Sub), fringe),
     fringe |-> IF state.shape_anti_alias THEN fringe ELSE 0,
     paths |-> path_iter(c)]

\* Stroke::line_width of the Stroke s the renderer was given
Stroke_line_width(s) == s.state.line_width

\* Canvas::stroke working on self.state itself instead of a copy of it
stroke_in_place ==
    /\ status = "ok"
    /\ \E overflow_checks \in BOOLEAN :
         /\ overflow_checks \/ overflow_matters
         /\ \E c \in {stroke_run(overflow_checks)} :
              /\ cache' = [points |-> c.points, verts |-> c.verts, paths |-> c.paths,
                           bounds |-> c.bounds]
              /\ status' = IF c.panic = "" THEN "ok" ELSE c.panic
              /\ trace' = [strokes |-> trace.strokes + 1,
                           renders |-> trace.renders + (IF c.panic = "" THEN 1 ELSE 0),
                           reserved |-> c.reserved,
                           calls |-> c.calls,
                           maxlevel |-> c.maxlevel,
                           addlevel |-> c.addlevel,
                           last |-> trace.last,
                           rendered |-> IF c.panic = "" THEN Some(stroke_rendered(c))
                                        ELSE trace.rendered]
    /\ state' = stroke_style(state, clamp(state.line_width, 0, MAX_LINE_WIDTH * Sub), fringe)
    /\ UNCHANGED << commands, pixels_per_point, tess_tol, dist_tol, fringe >>

\* Canvas::stroke; the renderer is called when the pipeline returned
stroke ==
    /\ status = "ok"
    /\ \E overflow_checks \in BOOLEAN :
         /\ overflow_checks \/ overflow_matters
         /\ \E c \in {stroke_run(overflow_checks)} :
              /\ cache' = [points |-> c.points, verts |-> c.verts, paths |-> c.paths,
                           bounds |-> c.bounds]
              /\ status' = IF c.panic = "" THEN "ok" ELSE c.panic
              /\ trace' = [strokes |-> trace.strokes + 1,
                           renders |-> trace.renders + (IF c.panic = "" THEN 1 ELSE 0),
                           reserved |-> c.reserved,
                           calls |-> c.calls,
                           maxlevel |-> c.maxlevel,
                           addlevel |-> c.addlevel,
                           last |-> trace.last,
                           rendered |-> IF c.panic = "" THEN Some(stroke_rendered(c))
                                        ELSE trace.rendered]
    /\ UNCHANGED << commands, state, pixels_per_point, tess_tol, dist_tol, fringe >>

(***************************************************************************)
(* Spec: a caller that sets the stroke style, records up to MaxCmds        *)
(* commands of an open path and strokes once.                              *)
(***************************************************************************)
SetLineWidth == trace.strokes = 0 /\ \E lw \in LineWidths : set_line_width(lw)
SetLineCap == trace.strokes = 0 /\ \E lc \in LineCaps : set_line_cap(lc)
SetLineJoin == trace.strokes = 0 /\ \E lj \in LineJoins : set_line_join(lj)
SetShapeAntiAlias == trace.strokes = 0 /\ \E en \in BOOLEAN : set_shape_anti_alias(en)
BeginPath == trace.strokes = 0 /\ begin_path
MoveTo == trace.strokes = 0 /\ Len(commands) < MaxCmds /\ \E p \in MovePoints : move_to(p)
LineTo == trace.strokes = 0 /\ Len(commands) < MaxCmds /\ \E p \in LinePoints : line_to(p)
BezierTo == trace.strokes = 0 /\ Len(commands) < MaxCmds /\ \E b \in Curves : bezier_to(b)
PathWinding == trace.strokes = 0 /\ Len(commands) < MaxCmds /\ path_winding_cmd("CW")
Stroke == trace.strokes = 0 /\ stroke

Next ==
    \/ SetLineWidth
    \/ SetLineCap
    \/ SetLineJoin
    \/ SetShapeAntiAlias
    \/ BeginPath
    \/ MoveTo
    \/ LineTo
    \/ BezierTo
    \/ PathWinding
    \/ Stroke

Spec == Init /\ [][Next]_vars

(***************************************************************************)
(* SpecPath: a caller that keeps the default style, records up to          *)
(* MaxPathCmds commands of any kind and strokes once.                      *)
(***************************************************************************)
PBeginPath == trace.strokes = 0 /\ begin_path
PMoveTo == trace.strokes = 0 /\ Len(commands) < MaxPathCmds /\ \E p \in MovePoints : move_to(p)
PLineTo ==
    trace.strokes = 0 /\ Len(commands) < MaxPathCmds /\ \E p \in LinePoints \cup MovePoints : line_to(p)
PBezierTo == trace.strokes = 0 /\ Len(commands) < MaxPathCmds /\ \E b \in Curves : bezier_to(b)
PClosePath == trace.strokes = 0 /\ Len(commands) < MaxPathCmds /\ close_path_cmd
PPathWinding ==
    trace.strokes = 0 /\ Len(commands) < MaxPathCmds /\ \E w \in Windings : path_winding_cmd(w)
PStroke == trace.strokes = 0 /\ stroke

NextPath ==
    \/ PBeginPath
    \/ PMoveTo
    \/ PLineTo
    \/ PBezierTo
    \/ PClosePath
    \/ PPathWinding
    \/ PStroke

SpecPath == Init /\ [][NextPath]_vars

(***************************************************************************)
(* SpecStyle: a caller that sets line width (negative, below the fringe,   *)
(* wide), join and stroke colour, records up to MaxStyleCmds commands of   *)
(* an open polyline and strokes once.                                      *)
(***************************************************************************)
MaxStyleCmds == 3

\* -1 px, 0.5 px and 10 px
StyleWidths == {-Sub, Sub \div 2, 10 * Sub}
\* the alpha byte passed to set_stroke_color
StrokeAlphas == {128}

SySetLineWidth == trace.strokes = 0 /\ \E lw \in StyleWidths : set_line_width(lw)
SySetLineJoin == trace.strokes = 0 /\ \E lj \in LineJoins : set_line_join(lj)
SySetStrokeColor == trace.strokes = 0 /\ \E a \in StrokeAlphas : set_stroke_color(a)
SyMoveTo == trace.strokes = 0 /\ Len(commands) < MaxStyleCmds /\ \E p \in MovePoints : move_to(p)
SyLineTo == trace.strokes = 0 /\ Len(commands) < MaxStyleCmds /\ \E p \in LinePoints : line_to(p)
SyStroke == trace.strokes = 0 /\ stroke

NextStyle ==
    \/ SySetLineWidth
    \/ SySetLineJoin
    \/ SySetStrokeColor
    \/ SyMoveTo
    \/ SyLineTo
    \/ SyStroke

SpecStyle == Init /\ [][NextStyle]_vars

(***************************************************************************)
(* SpecSession: a caller with the default style that records up to         *)
(* MaxSessionCmds commands between two begin_path calls and strokes up to  *)
(* MaxStrokes times, with or without a begin_path in between.              *)
(***************************************************************************)
MaxSessionCmds == 3
MaxStrokes == 2

SessionPoints == {Pt(40, 0), Pt(40, 40)}

SsBeginPath == begin_path
SsMoveTo == Len(commands) < MaxSessionCmds /\ \E p \in MovePoints : move_to(p)
SsLineTo == Len(commands) < MaxSessionCmds /\ \E p \in SessionPoints : line_to(p)
SsStroke == trace.strokes < MaxStrokes /\ stroke

NextSession ==
    \/ SsBeginPath
    \/ SsMoveTo
    \/ SsLineTo
    \/ SsStroke

SpecSession == Init /\ [][NextSession]_vars

(***************************************************************************)
(* SpecPoints: add_path and add_point called on their own, on a cache      *)
(* whose tolerance comes from the pixels-per-point ratio set at first.     *)
(***************************************************************************)
MaxPaths == 2
MaxPoints == 3

PointRatios == {<< 1, 1 >>, << 1, 50 >>, << 1, 0 >>}
PointInputs == {Pt(0, 0), Pt(1, 1), Pt(2, 0), Pt(40, 0)}
FlagInputs == {{}, {POINT_CORNER}}

PtSetPixelsPerPoint ==
    /\ cache = NewPathCache
    /\ pixels_per_point = << 1, 1 >>
    /\ \E ppp \in PointRatios \ {<< 1, 1 >>} : set_pixels_per_point(ppp)

PtAddPath ==
    /\ Len(cache.paths) < MaxPaths
    /\ cache' = add_path(cache)
    /\ trace' = [trace EXCEPT !.last = None]
    /\ UNCHANGED << commands, state, pixels_per_point, tess_tol, dist_tol, fringe, status >>

PtAddPoint ==
    /\ Len(cache.points) < MaxPoints
    /\ \E p \in PointInputs, flags \in FlagInputs :
         /\ cache' = add_point(cache, p.x, p.y, flags, dist_tol)
         /\ trace' = [trace EXCEPT !.last = Some([op |-> "add_point", prev |-> cache,
                                                  x |-> p.x, y |-> p.y, flags |-> flags])]
    /\ UNCHANGED << commands, state, pixels_per_point, tess_tol, dist_tol, fringe, status >>

\* the arm Command::MoveTo of flatten_paths
PtMoveTo ==
    /\ Len(cache.paths) < MaxPaths
    /\ Len(cache.points) < MaxPoints
    /\ \E p \in PointInputs :
         /\ cache' = flatten_command(cache, MoveToCmd(p), tess_tol, dist_tol)
         /\ trace' = [trace EXCEPT !.last = Some([op |-> "MoveTo", prev |-> cache,
                                                  x |-> p.x, y |-> p.y,
                                                  flags |-> {POINT_CORNER}])]
    /\ UNCHANGED << commands, state, pixels_per_point, tess_tol, dist_tol, fringe, status >>

NextPoints ==
    \/ PtSetPixelsPerPoint
    \/ PtAddPath
    \/ PtAddPoint
    \/ PtMoveTo

SpecPoints == Init /\ [][NextPoints]_vars

(***************************************************************************)
(* SpecNormalize: normalize applied to vectors of the 1e-6 px grid, from   *)
(* the zero vector and vectors of one step (the epsilon) upwards, and to   *)
(* vectors of the grid of the stored points.                               *)
(***************************************************************************)
FineInputs == {-400, -300, -40, -30, -1, 0, 1, 30, 40, 300, 400}
GridInputs == {-40, -4, 0, 4, 40}

NzNormalizeFine ==
    /\ \E x \in FineInputs, y \in FineInputs :
         trace' = [trace EXCEPT !.last = Some([op |-> "normalize", fine |-> TRUE, x |-> x,
                                                  y |-> y, result |-> normalize_fine(x, y)])]
    /\ UNCHANGED << commands, state, cache, pixels_per_point, tess_tol, dist_tol, fringe,
                    status >>

NzNormalize ==
    /\ \E x \in GridInputs, y \in GridInputs :
         trace' = [trace EXCEPT !.last = Some([op |-> "normalize", fine |-> FALSE, x |-> x,
                                                  y |-> y, result |-> normalize(x, y)])]
    /\ UNCHANGED << commands, state, cache, pixels_per_point, tess_tol, dist_tol, fringe,
                    status >>

NextNormalize ==
    \/ NzNormalizeFine
    \/ NzNormalize

SpecNormalize == Init /\ [][NextNormalize]_vars

(***************************************************************************)
(* SpecBezier: a caller that sets the pixels-per-point ratio, records      *)
(* MoveTo(0,0) and one BezierTo, and strokes once.                         *)
(***************************************************************************)
BezierRatios == {<< 1, 1 >>, << 1, 50 >>, << 1, 0 >>}
BezierPoints == {Pt(0, 0), Pt(1, 0), Pt(16, 0), Pt(40, 0), Pt(16, 16)}

BzSetPixelsPerPoint ==
    /\ commands = << >>
    /\ trace.strokes = 0
    /\ pixels_per_point = << 1, 1 >>
    /\ \E ppp \in BezierRatios \ {<< 1, 1 >>} : set_pixels_per_point(ppp)

BzMoveTo == trace.strokes = 0 /\ commands = << >> /\ move_to(Pt(0, 0))

BzBezierTo ==
    /\ trace.strokes = 0
    /\ Len(commands) = 1
    /\ \E cp1 \in BezierPoints, cp2 \in BezierPoints, end \in BezierPoints :
         bezier_to(<< cp1, cp2, end >>)

BzStroke == trace.strokes = 0 /\ Len(commands) = 2 /\ stroke

NextBezier ==
    \/ BzSetPixelsPerPoint
    \/ BzMoveTo
    \/ BzBezierTo
    \/ BzStroke

SpecBezier == Init /\ [][NextBezier]_vars

(***************************************************************************)
(* Properties                                                              *)
(***************************************************************************)
RECURSIVE SumSeq(_)
SumSeq(q) == IF q = << >> THEN 0 ELSE Head(q) + SumSeq(Tail(q))

\* the last stroke got as far as the reservation loop of expand_stroke
ExpandReached ==
    /\ trace.strokes > 0
    /\ status \in {"ok", "expand_stroke:569", "expand_stroke:576", "expand_stroke:577",
                   "expand_stroke:604"}

\* the divisions per half circle of the last stroke
StrokeNcap == curve_divs(stroke_width(state.line_width, fringe) \div 2, tess_tol)

\* the reservation C1 states for a sub-path
StatedReservation(path) ==
    (path.count + path.nbevel * (IF state.line_join = "Round" THEN StrokeNcap + 2 ELSE 5) + 1) * 2
    + (IF path.closed THEN 0
       ELSE IF state.line_cap = "Round" THEN (StrokeNcap * 2 + 2) * 2 ELSE 12)

\* C1: expand_stroke reserves (count + nbevel*K + 1)*2 vertices per sub-path,
\* with K = ncap+2 for Round joins and 5 otherwise, plus (ncap*2+2)*2 for
\* Round caps or 12 for Butt/Square caps when the sub-path is open; the
\* vertices it pushes for a sub-path are at most what it reserved for it, and
\* the vertices pushed in total are at most the reserved total.
C1_VerticesWithinReservation ==
    ExpandReached =>
        /\ Len(trace.reserved) = Len(cache.paths)
        /\ \A i \in 1..Len(cache.paths) :
              /\ trace.reserved[i] = StatedReservation(cache.paths[i])
              /\ cache.paths[i].stroke # None =>
                    cache.paths[i].stroke[1].count <= trace.reserved[i]
        /\ Len(cache.verts) <= SumSeq(trace.reserved)

\* a stroke with Round joins and Round caps that pushed a join's vertices
C1_Witness ==
    /\ status = "ok"
    /\ trace.strokes > 0
    /\ state.line_join = "Round"
    /\ state.line_cap = "Round"
    /\ \E i \in 1..Len(cache.paths) :
          /\ cache.paths[i].count >= 3
          /\ cache.paths[i].stroke # None
          /\ cache.paths[i].stroke[1].count > 2 * cache.paths[i].count

\* C2: when the first sub-path has 0 or 1 points after de-duplication, the
\* stages skip it without error: stroke returns and the renderer is invoked.
C2_ShortSubPathSkipped ==
    (trace.strokes > 0 /\ Len(cache.paths) > 0 /\ cache.paths[1].count < 2) =>
        (status = "ok" /\ trace.renders = trace.strokes)

\* C3: for every closed sub-path expand_stroke completes without an
\* out-of-range access and records the sub-path's stroke vertices.
C3_ClosedSubPathCompletes ==
    (ExpandReached /\ \E i \in 1..Len(cache.paths) :
                        cache.paths[i].closed /\ cache.paths[i].count >= 2) =>
        /\ status = "ok"
        /\ \A i \in 1..Len(cache.paths) : cache.paths[i].stroke # None

\* flatten_paths returned
Flattened ==
    /\ trace.strokes > 0
    /\ status \notin {"flatten_paths:439", "edges_iter_mut:1053"}

\* C4: after flatten_paths, for every sub-path with more than 2 points the
\* signed area of its stored points is >= 0 when its winding is CCW and <= 0
\* when it is CW.
C4_AreaSignMatchesWinding ==
    Flattened =>
        \A i \in 1..Len(cache.paths) :
            cache.paths[i].count > 2 =>
                \A area \in {polygon_area(SliceOf(cache.points, cache.paths[i].first,
                                                   cache.paths[i].count))} :
                    /\ cache.paths[i].winding = "CCW" => area >= 0
                    /\ cache.paths[i].winding = "CW" => area <= 0

\* the triangle recorded as (0,0), (40,0), (40,40) is stored in the opposite
\* order, starting from its last point
C4_Witness ==
    /\ Flattened
    /\ commands = << MoveToCmd(Pt(0, 0)), LineToCmd(Pt(40, 0)), LineToCmd(Pt(40, 40)) >>
    /\ cache.paths[1].count = 3
    /\ cache.points[1].x = 40 /\ cache.points[1].y = 40
    /\ cache.points[3].x = 0 /\ cache.points[3].y = 0
    /\ polygon_area(cache.points) > 0

\* the squared distance of (x1,y1) and (x2,y2) is below dist_tol squared
BelowDistTol(x1, y1, x2, y2) ==
    ((x2 - x1) * (x2 - x1) + (y2 - y1) * (y2 - y1)) * TolScale * TolScale < dist_tol * dist_tol

\* the last call of add_point found a previous point of the same sub-path
\* within the tolerance of the incoming point
MergeCase(l) ==
    /\ l.op = "add_point"
    /\ Len(l.prev.paths) > 0
    /\ l.prev.paths[Len(l.prev.paths)].count > 0
    /\ BelowDistTol(l.prev.points[Len(l.prev.points)].x, l.prev.points[Len(l.prev.points)].y,
                    l.x, l.y)

\* C5: add_point of a point whose squared distance to the previous point of
\* the sub-path is below dist_tol squared stores no new point, leaves the
\* count unchanged, keeps the previous point's position and makes its flags
\* the union of its old flags and the incoming flags; no two consecutive
\* stored points of a sub-path are that close.
C5_MergeWithinTolerance ==
    /\ \A l \in {trace.last[k] : k \in 1..Len(trace.last)} :
          MergeCase(l) =>
              /\ cache.paths = l.prev.paths
              /\ Len(cache.points) = Len(l.prev.points)
              /\ \A k \in 1..Len(cache.points) :
                    /\ cache.points[k].x = l.prev.points[k].x
                    /\ cache.points[k].y = l.prev.points[k].y
                    /\ cache.points[k].flags =
                          IF k = Len(cache.points)
                          THEN l.prev.points[k].flags \cup l.flags
                          ELSE l.prev.points[k].flags
    /\ \A i \in 1..Len(cache.paths) :
          \A k \in (cache.paths[i].first + 1)..(cache.paths[i].first + cache.paths[i].count - 1) :
              ~BelowDistTol(cache.points[k].x, cache.points[k].y,
                            cache.points[k + 1].x, cache.points[k + 1].y)

\* a point without flags absorbed a CORNER point that lies elsewhere
C5_Witness ==
    /\ trace.last # None
    /\ MergeCase(trace.last[1])
    /\ trace.last[1].prev.points[Len(cache.points)].flags = {}
    /\ trace.last[1].flags = {POINT_CORNER}
    /\ trace.last[1].x # cache.points[Len(cache.points)].x
    /\ cache.points[Len(cache.points)].flags = {POINT_CORNER}

\* the segment of C6 was stroked: MoveTo(0,0), LineTo(10,0), width 2, Butt
\* caps, no anti-aliasing
SegmentStroked ==
    /\ trace.strokes > 0
    /\ commands = << MoveToCmd(Pt(0, 0)), LineToCmd(Pt(10 * Sub, 0)) >>
    /\ state.line_width = 2 * Sub
    /\ state.line_cap = "Butt"
    /\ ~state.shape_anti_alias

\* the 8 vertices lie at (0,-1), (0,1) twice and then at (10,-1), (10,1) twice
SegmentVertices ==
    /\ status = "ok"
    /\ Len(cache.verts) = 8
    /\ cache.paths[1].stroke = Some([first |-> 0, count |-> 8])
    /\ \A k \in 1..8 :
          /\ cache.verts[k].x = IF k <= 4 THEN 0 ELSE 10 * Sub
          /\ cache.verts[k].y = IF k % 2 = 1 THEN -Sub ELSE Sub

\* C6 (as stated): the segment yields 8 vertices at (0,+-1) and (10,+-1), and
\* every vertex has u in {0,1}.
C6_SegmentAsStated ==
    SegmentStroked =>
        /\ SegmentVertices
        /\ \A k \in 1..Len(cache.verts) : cache.verts[k].u \in {0, One}

\* C6 (amended): the segment yields 8 vertices at (0,+-1) and (10,+-1), and
\* every vertex has u = 0.5.
C6_SegmentVertices ==
    SegmentStroked =>
        /\ SegmentVertices
        /\ \A k \in 1..Len(cache.verts) : cache.verts[k].u = HALF

C6_Witness == SegmentStroked /\ status = "ok" /\ Len(cache.verts) = 8

\* a stroke that returned
Stroked == trace.strokes > 0 /\ status = "ok"

\* the only sub-path runs along the x axis in the direction of growing x, so
\* that its left side is y < 0 and its right side y > 0
AlongXAxis ==
    /\ Len(cache.paths) = 1
    /\ \A k \in 1..Len(cache.points) : cache.points[k].y = 0
    /\ \A k \in 1..(Len(cache.points) - 1) : cache.points[k].x < cache.points[k + 1].x

\* vertex k is one of the two fringe-extension vertices of a start cap or of
\* an end cap: caps that are not Round begin, and end, with two of them
CapExtension(k) ==
    /\ state.line_cap # "Round"
    /\ \E i \in 1..Len(cache.paths) :
          /\ cache.paths[i].stroke # None
          /\ ~cache.paths[i].closed
          /\ \E s \in {cache.paths[i].stroke[1]} :
                k - s.first \in {1, 2, s.count - 1, s.count}

\* v is 0 exactly for the fringe-extension vertices of caps and 1 otherwise
VAsStated ==
    \A k \in 1..Len(cache.verts) :
        cache.verts[k].v = (IF CapExtension(k) THEN 0 ELSE One)

CollinearCubic ==
    /\ Len(commands) = 2
    /\ commands[2].op = "BezierTo"
    /\ \E b \in {commands[2]}, a \in {commands[1]} :
          /\ triangle_area2(a.x, a.y, b.cp1x, b.cp1y, b.cp2x, b.cp2y) = 0
          /\ triangle_area2(a.x, a.y, b.cp1x, b.cp1y, b.x, b.y) = 0
          /\ triangle_area2(a.x, a.y, b.cp2x, b.cp2y, b.x, b.y) = 0
          /\ triangle_area2(b.cp1x, b.cp1y, b.cp2x, b.cp2y, b.x, b.y) = 0

\* the cache holds the start point and the end point of the cubic, only
StartAndEndStored ==
    /\ Len(cache.points) = 2
    /\ cache.points[1].x = commands[1].x /\ cache.points[1].y = commands[1].y
    /\ cache.points[2].x = commands[2].x /\ cache.points[2].y = commands[2].y

C9_DepthAsStated == trace.maxlevel <= MAX_LEVEL

\* C9 (amended): tesselate_bezier returns after at most 2^12 - 1 calls; no
\* call is made with a level greater than 11, and no point is added at a
\* level greater than 10.
C9_DepthBounded ==
    /\ trace.maxlevel <= MAX_LEVEL + 1
    /\ trace.addlevel <= MAX_LEVEL
    /\ trace.calls <= 4095

\* a cubic was subdivided all the way down
C9_Witness ==
    /\ trace.strokes > 0
    /\ trace.maxlevel = MAX_LEVEL + 1
    /\ trace.calls = 4095

RECURSIVE LeftCount(_)
LeftCount(points) ==
    IF points = << >> THEN 0
    ELSE (IF POINT_LEFT \in Head(points).flags THEN 1 ELSE 0) + LeftCount(Tail(points))

\* C10: after calculate_joins, for each sub-path convex is true if and only
\* if the number of its points flagged LEFT equals its point count.
C10_ConvexIffAllLeft ==
    ExpandReached =>
        \A i \in 1..Len(cache.paths) :
            cache.paths[i].convex =
                (LeftCount(SliceOf(cache.points, cache.paths[i].first, cache.paths[i].count))
                     = cache.paths[i].count)

\* the post-pass of flatten_paths met sub-path i of the cache pre, the cache
\* as the command loop left it, with its last point on its first
ClosedByCoincidence(pre, i) ==
    BelowDistTol(pre.points[pre.paths[i].first + pre.paths[i].count].x,
                 pre.points[pre.paths[i].first + pre.paths[i].count].y,
                 pre.points[pre.paths[i].first + 1].x,
                 pre.points[pre.paths[i].first + 1].y)

\* C11: in the post-pass of flatten_paths a sub-path whose last stored point
\* lies within dist_tol of its first point has its count reduced by exactly
\* one and is marked closed, also without a Close command; every other
\* sub-path keeps its count and the closed flag the Close commands gave it.
C11_PostPassClosesCoinciding ==
    Flattened =>
        \A pre \in {flatten_commands(observed(NewPathCache), commands, 1, tess_tol, dist_tol)} :
            /\ Len(cache.paths) = Len(pre.paths)
            /\ \A i \in 1..Len(pre.paths) :
                  IF ClosedByCoincidence(pre, i)
                  THEN /\ cache.paths[i].count = pre.paths[i].count - 1
                       /\ cache.paths[i].closed
                  ELSE /\ cache.paths[i].count = pre.paths[i].count
                       /\ cache.paths[i].closed = pre.paths[i].closed

\* a triangle drawn back to its start without a Close command came out closed
\* with three of its four points kept
C11_Witness ==
    /\ Flattened
    /\ \A k \in 1..Len(commands) : commands[k].op # "Close"
    /\ \E i \in 1..Len(cache.paths) : cache.paths[i].closed /\ cache.paths[i].count = 3

\* C12: Canvas::stroke works on a copy of the style: a step that is a stroke
\* call leaves the stored line width, cap, join, miter limit, anti-alias
\* flag and stroke colours (their alpha included) as they were, and a step
\* that changes the stored style changes nothing else, as the set_* methods do.
C12_StrokeLeavesStyle ==
    [][/\ trace'.strokes # trace.strokes => state' = state
       /\ state' # state => UNCHANGED << commands, cache, status, trace >>]_vars

\* a stroke narrower than the fringe was rendered with the alpha of its copy
\* of the colours scaled down, and the stored colours kept their alpha
C12_Witness ==
    /\ trace.strokes > 0
    /\ trace.rendered # None
    /\ state.line_width = Sub \div 2
    /\ state.stroke.inner_color = 128
    /\ trace.rendered[1].state.stroke.inner_color = 32
    /\ trace.rendered[1].state.stroke.outer_color = 32
    /\ trace.rendered[1].paths # << >>

\* C13: a begin_path call leaves the command sequence empty and the point
\* buffer, the sub-path list and the vertex buffer of the cache empty.
C13_BeginPathEmptiesCache ==
    [][begin_path =>
          /\ commands' = << >>
          /\ cache'.points = << >>
          /\ cache'.paths = << >>
          /\ cache'.verts = << >>]_vars

\* C14: every stroke call invokes the renderer exactly once, after the cache
\* was flattened and expanded, and the renderer's path_iter yields one Path
\* per sub-path of the cache, in order, whose verts() are the sub-path's
\* stroke vertex range and whose closed() is the sub-path's closed flag.
C14_RenderOncePerStroke ==
    [][trace'.strokes # trace.strokes =>
          /\ trace'.renders = trace.renders + 1
          /\ trace'.rendered # None
          /\ Len(trace'.rendered[1].paths) = Len(cache'.paths)
          /\ \A i \in 1..Len(cache'.paths) :
                /\ cache'.paths[i].stroke # None
                /\ trace'.rendered[1].paths[i].verts =
                      SubSeq(cache'.verts, cache'.paths[i].stroke[1].first + 1,
                             cache'.paths[i].stroke[1].first + cache'.paths[i].stroke[1].count)
                /\ trace'.rendered[1].paths[i].closed = cache'.paths[i].closed]_vars

\* the number of MoveTo commands recorded since the last begin_path
MoveTos == Cardinality({k \in 1..Len(commands) : commands[k].op = "MoveTo"})

\* C19: a stroke call that returns hands the renderer the sub-paths and
\* vertices that the commands recorded since the last begin_path describe,
\* one sub-path per MoveTo, whatever was stroked before; so two consecutive
\* stroke calls deliver the same sub-paths and vertices.
C19_StrokeRepeatable ==
    [][(trace'.strokes # trace.strokes /\ status' = "ok") =>
          \A c \in {stroke_expand(flatten_paths(observed(NewPathCache), commands, tess_tol,
                                                dist_tol, TRUE),
                                  stroke_width(state.line_width, fringe), state, fringe,
                                  tess_tol, TRUE)} :
              /\ c.panic = ""
              /\ Len(trace'.rendered[1].paths) = MoveTos
              /\ trace'.rendered[1].paths = path_iter(c)]_vars

\* the slice lengths for which the pairs of edges_iter_mut are listed
MaxEdges == 5

\* the stored point at offset k of sub-path path
PointAt(path, k) == cache.points[path.first + k + 1]

\* C15: over n >= 1 elements edges_iter_mut yields n pairs, first (n-1, 0)
\* and then (k-1, k) for k = 1..n-1, so that every element is the second
\* component exactly once; and flatten_paths stores on every point of a
\* sub-path the direction and the length of the segment to its cyclic successor.
C15_EdgesAreCyclic ==
    /\ \A n \in 1..MaxEdges :
          /\ Len(edges_iter_mut(n)) = n
          /\ edges_iter_mut(n)[1] = << n - 1, 0 >>
          /\ \A k \in 1..(n - 1) : edges_iter_mut(n)[k + 1] = << k - 1, k >>
          /\ \A e \in 0..(n - 1) :
                Cardinality({k \in 1..n : edges_iter_mut(n)[k][2] = e}) = 1
    /\ Flattened =>
          \A i \in 1..Len(cache.paths) :
              \A k \in 0..(cache.paths[i].count - 1) :
                  \A p \in {PointAt(cache.paths[i], k)} :
                  \A q \in {PointAt(cache.paths[i], (k + 1) % cache.paths[i].count)} :
                      << p.dx, p.dy, p.len >> = normalize(q.x - p.x, q.y - p.y)

\* the last point of a sub-path of three points carries the direction and
\* the length of the segment back to the first point
C15_Witness ==
    /\ Flattened
    /\ \E i \in 1..Len(cache.paths) :
          /\ cache.paths[i].count = 3
          /\ PointAt(cache.paths[i], 2).len > 0
          /\ << PointAt(cache.paths[i], 2).dx, PointAt(cache.paths[i], 2).dy,
                PointAt(cache.paths[i], 2).len >>
                = normalize(PointAt(cache.paths[i], 0).x - PointAt(cache.paths[i], 2).x,
                            PointAt(cache.paths[i], 0).y - PointAt(cache.paths[i], 2).y)

\* C16: a stroke call with a negative line width is a no-op: it returns
\* without a panic, every sub-path is skipped and no stroke vertex is emitted.
C16_NegativeWidthIsNoOp ==
    (trace.strokes > 0 /\ state.line_width < 0) =>
        /\ status = "ok"
        /\ cache.verts = << >>
        /\ \A i \in 1..Len(trace.rendered[1].paths) : trace.rendered[1].paths[i].verts = << >>

\* the vertices of the last stroke that lie on the point p with u = 0.5: with
\* anti-aliasing on and Butt caps only the fan of a round join emits them,
\* one for each of its n steps
JoinSteps(p) ==
    Cardinality({k \in 1..Len(cache.verts) :
                    /\ cache.verts[k].u = HALF
                    /\ cache.verts[k].x = p.x
                    /\ cache.verts[k].y = p.y})

\* the angle in units of PI/24 that the direction turns through at the point
\* p1 reached from p0, taken on the outer side of the corner
SweptAngle(p0, p1) ==
    IF POINT_LEFT \in p1.flags
    THEN (Atan2(p0.dy, p0.dx) - Atan2(p1.dy, p1.dx)) % _2_PI
    ELSE (Atan2(p1.dy, p1.dx) - Atan2(p0.dy, p0.dx)) % _2_PI

\* ceil((pi/2) / (2 * acos(r / (r + tol)))) for r = 5 px and tol = 0.25 px: the
\* least k with r / (r + tol) <= cos(pi / (4 * k))
QuarterTurnSteps ==
    CHOOSE k \in 1..(Len(CosHalfPiOver) \div 2) :
        /\ 5 * Sub * 1000000 <= CosHalfPiOver[2 * k] * (5 * Sub + 1)
        /\ \A j \in 1..(k - 1) : 5 * Sub * 1000000 > CosHalfPiOver[2 * j] * (5 * Sub + 1)

\* the stroke of the example: w = 5 px, tess_tol = 0.25 px, Round joins, one
\* corner of 90 degrees
QuarterTurnStroked ==
    /\ trace.strokes > 0
    /\ status = "ok"
    /\ state.line_join = "Round"
    /\ state.line_width = 10 * Sub
    /\ tess_tol = 1
    /\ commands = << MoveToCmd(Pt(0, 0)), LineToCmd(Pt(40, 0)), LineToCmd(Pt(40, 40)) >>

\* C17: the fan of a round join has n = clamp(ceil(sweptAngle / pi * ncap), 2, ncap)
\* steps, so 2 <= n <= ncap; for a corner of 90 degrees with w = 5 and
\* tess_tol = 0.25 that is clamp(ceil((pi/2) / (2 * acos(5 / 5.25))), 2, ncap).
C17_RoundJoinSteps ==
    /\ (trace.strokes > 0 /\ status = "ok" /\ state.line_join = "Round") =>
          \A i \in 1..Len(cache.paths) :
              \A k \in 1..(cache.paths[i].count - 2) :
                  \A p0 \in {PointAt(cache.paths[i], k - 1)} :
                  \A p1 \in {PointAt(cache.paths[i], k)} :
                      IF p1.flags \cap {POINT_BEVEL, POINT_INNER_BEVEL} # {}
                      THEN /\ JoinSteps(p1) =
                                 clamp(CeilDiv(SweptAngle(p0, p1) * StrokeNcap, PI), 2, StrokeNcap)
                           /\ JoinSteps(p1) >= 2
                           /\ JoinSteps(p1) <= StrokeNcap
                      ELSE JoinSteps(p1) = 0
    /\ QuarterTurnStroked =>
          JoinSteps(cache.points[2]) = clamp(QuarterTurnSteps, 2, StrokeNcap)

\* the corner of the example was joined by a fan of 3 steps out of ncap = 6
C17_Witness ==
    /\ QuarterTurnStroked
    /\ StrokeNcap = 6
    /\ SweptAngle(cache.points[1], cache.points[2]) * 2 = PI
    /\ JoinSteps(cache.points[2]) = 3

\* the position of vertex k (counted from 0) of the vertex buffer
VertPos(k) == << cache.verts[k + 1].x, cache.verts[k + 1].y >>

\* C18: the two loop-closure vertices that end the stroke of a closed
\* sub-path have the positions of that sub-path's own first two emitted
\* vertices, those at the indices first and first + 1 of its stroke range,
\* also when the sub-path is not the first one.
C18_LoopClosesOnOwnVertices ==
    Flattened =>
        \A i \in 1..Len(cache.paths) :
            (cache.paths[i].closed /\ cache.paths[i].count >= 2) =>
                /\ cache.paths[i].stroke # None
                /\ \A r \in {cache.paths[i].stroke[1]} :
                      /\ r.count >= 4
                      /\ VertPos(r.first + r.count - 2) = VertPos(r.first)
                      /\ VertPos(r.first + r.count - 1) = VertPos(r.first + 1)

\* C20: a MoveTo command starts exactly one new sub-path, open, with nbevel
\* 0 and not convex, whose first index is the end of the point buffer as it
\* was, and stores its point as the first point of that sub-path: the point
\* is never merged into the last point of the preceding sub-path, also when
\* the two coincide within dist_tol.
C20_MoveToStartsSubPath ==
    \A l \in {trace.last[k] : k \in 1..Len(trace.last)} :
        l.op = "MoveTo" =>
            /\ Len(cache.paths) = Len(l.prev.paths) + 1
            /\ SubSeq(cache.paths, 1, Len(l.prev.paths)) = l.prev.paths
            /\ \A path \in {cache.paths[Len(cache.paths)]} :
                  /\ path.first = Len(l.prev.points)
                  /\ path.count = 1
                  /\ ~path.closed
                  /\ path.nbevel = 0
                  /\ ~path.convex
            /\ Len(cache.points) = Len(l.prev.points) + 1
            /\ SubSeq(cache.points, 1, Len(l.prev.points)) = l.prev.points
            /\ cache.points[Len(cache.points)].x = l.x
            /\ cache.points[Len(cache.points)].y = l.y

\* a MoveTo to a point within the tolerance of the last point of the
\* sub-path before it started a sub-path of its own
C20_Witness ==
    /\ trace.last # None
    /\ trace.last[1].op = "MoveTo"
    /\ Len(trace.last[1].prev.paths) > 0
    /\ trace.last[1].prev.paths[Len(trace.last[1].prev.paths)].count > 0
    /\ BelowDistTol(trace.last[1].prev.points[Len(trace.last[1].prev.points)].x,
                    trace.last[1].prev.points[Len(trace.last[1].prev.points)].y,
                    trace.last[1].x, trace.last[1].y)
    /\ trace.last[1].x # trace.last[1].prev.points[Len(trace.last[1].prev.points)].x
    /\ cache.paths[Len(cache.paths)].first = Len(trace.last[1].prev.points)

\* the number of MoveTo commands among the first k commands
MoveTosUpTo(k) == Cardinality({j \in 1..k : commands[j].op = "MoveTo"})

\* the places of the Winding commands recorded while sub-path i was current
WindingsOf(i) ==
    {k \in 1..Len(commands) : commands[k].op = "Winding" /\ MoveTosUpTo(k) = i}

\* the winding the commands request for sub-path i
RequestedWinding(i) ==
    IF WindingsOf(i) = {} THEN "CCW"
    ELSE commands[CHOOSE k \in WindingsOf(i) : \A j \in WindingsOf(i) : j <= k].winding

\* C21: a Winding command changes the requested winding of the sub-path that
\* is current when it is processed and of no other: after the commands were
\* flattened every sub-path has the winding of the last Winding command
\* recorded between its MoveTo and the next MoveTo, and CCW without one.
C21_WindingOfCurrentSubPath ==
    trace.strokes > 0 =>
        /\ Len(cache.paths) = MoveTosUpTo(Len(commands))
        /\ \A i \in 1..Len(cache.paths) : cache.paths[i].winding = RequestedWinding(i)

\* a Winding command made the first sub-path CW and the sub-path that the
\* next MoveTo started is CCW
C21_Witness ==
    /\ trace.strokes > 0
    /\ Len(cache.paths) = 2
    /\ WindingsOf(1) # {}
    /\ WindingsOf(2) = {}
    /\ cache.paths[1].winding = "CW"
    /\ cache.paths[2].winding = "CCW"

\* the commands from the first MoveTo on
FromFirstMoveTo ==
    IF MoveTosUpTo(Len(commands)) = 0 THEN << >>
    ELSE SubSeq(commands, CHOOSE k \in 1..Len(commands) :
                              commands[k].op = "MoveTo" /\ MoveTosUpTo(k) = 1,
                Len(commands))

\* C22: LineTo, BezierTo, Close and Winding commands recorded after
\* begin_path and before the first MoveTo are ignored by flatten_paths: the
\* command loop leaves the cache as it would without them, a command list
\* without any MoveTo creates no sub-path and stores no point, and its
\* stroke returns without error.
C22_CommandsBeforeMoveToIgnored ==
    trace.strokes > 0 =>
        /\ flatten_commands(observed(NewPathCache), commands, 1, tess_tol, dist_tol)
             = flatten_commands(observed(NewPathCache), FromFirstMoveTo, 1, tess_tol, dist_tol)
        /\ MoveTosUpTo(Len(commands)) = 0 =>
              /\ status = "ok"
              /\ trace.renders = trace.strokes
              /\ cache.paths = << >>
              /\ cache.points = << >>
              /\ cache.verts = << >>

\* a LineTo, a BezierTo, a Close and a Winding command without a MoveTo were
\* stroked
C22_Witness ==
    /\ trace.strokes > 0
    /\ status = "ok"
    /\ MoveTosUpTo(Len(commands)) = 0
    /\ {commands[k].op : k \in 1..Len(commands)} = {"LineTo", "BezierTo", "Close", "Winding"}
    /\ cache.points = << >>

\* calculate_joins ran over every sub-path of the last stroke
Joined ==
    /\ trace.strokes > 0
    /\ status \in {"ok", "expand_stroke:569", "expand_stroke:576", "expand_stroke:577",
                   "expand_stroke:604"}

\* dmx*dmx + dmy*dmy of the extrusion (dlx0 + dlx1) / 2, (dly0 + dly1) / 2 at
\* the point p1 of a sub-path whose cyclic predecessor is p0, before the
\* extrusion is rescaled, in units of 1/One^2
Dmr2(p0, p1) ==
    TruncDiv(p0.dy + p1.dy, 2) * TruncDiv(p0.dy + p1.dy, 2)
        + TruncDiv(-p0.dx - p1.dx, 2) * TruncDiv(-p0.dx - p1.dx, 2)

\* C23: after calculate_joins the flags of every point of a sub-path are a
\* subset of {CORNER, LEFT, BEVEL, INNER_BEVEL}, the CORNER bit is what it
\* was before the call, and BEVEL is set exactly when the point has CORNER
\* and the join kind is Bevel or Round or dmr2 * miter_limit^2 < 1; a point
\* without CORNER never has BEVEL.
C23_BevelOnlyOnCorners ==
    Joined =>
        \A before \in {flatten_paths(observed(NewPathCache), commands, tess_tol, dist_tol,
                                      FALSE)} :
            \A i \in 1..Len(cache.paths) :
                \A k \in 0..(cache.paths[i].count - 1) :
                    \A p0 \in {PointAt(cache.paths[i],
                                        (k + cache.paths[i].count - 1) % cache.paths[i].count)} :
                    \A p1 \in {PointAt(cache.paths[i], k)} :
                        /\ p1.flags \subseteq
                              {POINT_CORNER, POINT_LEFT, POINT_BEVEL, POINT_INNER_BEVEL}
                        /\ (POINT_CORNER \in p1.flags) <=>
                              (POINT_CORNER
                                  \in before.points[cache.paths[i].first + k + 1].flags)
                        /\ (POINT_BEVEL \in p1.flags) <=>
                              /\ POINT_CORNER \in p1.flags
                              /\ \/ state.line_join \in {"Bevel", "Round"}
                                 \/ Dmr2(p0, p1) * state.miter_limit * state.miter_limit
                                        < One * One
                        /\ POINT_CORNER \notin p1.flags => POINT_BEVEL \notin p1.flags

\* with Round joins a point inside a flattened curve, which has no CORNER,
\* got no BEVEL, and the corner points of the same sub-path did
C23_Witness ==
    /\ Joined
    /\ state.line_join = "Round"
    /\ \E i \in 1..Len(cache.paths) :
          /\ \E k \in 0..(cache.paths[i].count - 1) :
                PointAt(cache.paths[i], k).flags \cap {POINT_CORNER, POINT_BEVEL} = {}
          /\ \E k \in 0..(cache.paths[i].count - 1) :
                {POINT_CORNER, POINT_BEVEL} \subseteq PointAt(cache.paths[i], k).flags

\* the fringe, the half width w after "w += aa * 0.5" and the texture
\* coordinates u0, u1 of the last stroke
StrokeAa == IF state.shape_anti_alias THEN fringe ELSE 0
StrokeW == stroke_width(state.line_width, fringe) \div 2 + StrokeAa \div 2
StrokeU0 == IF StrokeAa = 0 THEN HALF ELSE 0
StrokeU1 == IF StrokeAa = 0 THEN HALF ELSE One

\* the vertices C25 states for one cap
CapVerts == IF state.line_cap = "Round" THEN 2 * StrokeNcap + 2 ELSE 4

\* the vertices C24 states for the join at p1, reached from p0
JoinVerts(p0, p1) ==
    IF p1.flags \cap {POINT_BEVEL, POINT_INNER_BEVEL} = {} THEN 2
    ELSE IF state.line_join = "Round"
         THEN 2 * clamp(CeilDiv(SweptAngle(p0, p1) * StrokeNcap, PI), 2, StrokeNcap) + 4
         ELSE IF POINT_BEVEL \in p1.flags THEN 8 ELSE 10

\* the vertices stated for the start cap and the joins of the points 1..k-1
\* of an open sub-path: the offset of the join of point k in its vertex range
RECURSIVE JoinOffset(_, _)
JoinOffset(path, k) ==
    IF k <= 1 THEN CapVerts
    ELSE JoinOffset(path, k - 1) + JoinVerts(PointAt(path, k - 2), PointAt(path, k - 1))

\* an open sub-path of at least 2 points of a stroke that returned
OpenStroked(path) == status = "ok" /\ trace.strokes > 0 /\ ~path.closed /\ path.count >= 2

\* C24: for a processed point without BEVEL and INNER_BEVEL expand_stroke
\* emits exactly 2 vertices, at p + w*dm and p - w*dm with v = 1; otherwise
\* round_join emits 2*n + 4 vertices when the join kind is Round and
\* bevel_join emits 8 vertices when BEVEL is set and 10 when only
\* INNER_BEVEL is set.
C24_JoinVertices ==
    \A i \in 1..Len(cache.paths) :
        OpenStroked(cache.paths[i]) =>
            \A path \in {cache.paths[i]} :
                /\ path.stroke[1].count = JoinOffset(path, path.count - 1) + CapVerts
                /\ \A k \in 1..(path.count - 2) :
                      \A p \in {PointAt(path, k)} :
                      \A at \in {path.stroke[1].first + JoinOffset(path, k)} :
                          p.flags \cap {POINT_BEVEL, POINT_INNER_BEVEL} = {} =>
                              /\ cache.verts[at + 1] =
                                    [x |-> p.x + MulOne(p.dmx, StrokeW),
                                     y |-> p.y + MulOne(p.dmy, StrokeW),
                                     u |-> StrokeU0, v |-> One]
                              /\ cache.verts[at + 2] =
                                    [x |-> p.x - MulOne(p.dmx, StrokeW),
                                     y |-> p.y - MulOne(p.dmy, StrokeW),
                                     u |-> StrokeU1, v |-> One]

\* a Miter stroke whose only join has INNER_BEVEL without BEVEL got the 10
\* vertices of bevel_join between its two caps
C24_Witness ==
    /\ state.line_join = "Miter"
    /\ \E i \in 1..Len(cache.paths) :
          /\ OpenStroked(cache.paths[i])
          /\ cache.paths[i].count = 3
          /\ PointAt(cache.paths[i], 1).flags \cap {POINT_BEVEL, POINT_INNER_BEVEL}
                = {POINT_INNER_BEVEL}
          /\ cache.paths[i].stroke[1].count = 2 * CapVerts + 10

\* the len vertices from the offset from of the vertex range of a sub-path
Segment(path, from, len) ==
    SubSeq(cache.verts, path.stroke[1].first + from + 1, path.stroke[1].first + from + len)

\* C25: the vertex range of an open sub-path of n >= 2 points begins with
\* the start cap, continues with the joins of the points 1..n-2 in order and
\* ends with the end cap; a Butt or Square cap is exactly 4 vertices and a
\* Round cap exactly 2*ncap + 2 vertices at each end, and the caps are built
\* on the first and on the last point of the sub-path and on no other.
C25_CapsAroundJoins ==
    \A i \in 1..Len(cache.paths) :
        OpenStroked(cache.paths[i]) =>
            \A path \in {cache.paths[i]} :
            \A d0 \in {normalize(PointAt(path, 1).x - PointAt(path, 0).x,
                                  PointAt(path, 1).y - PointAt(path, 0).y)} :
            \A d1 \in {normalize(
                            PointAt(path, path.count - 1).x - PointAt(path, path.count - 2).x,
                            PointAt(path, path.count - 1).y - PointAt(path, path.count - 2).y)} :
                /\ Segment(path, 0, CapVerts) =
                      cap_start(<< >>, state.line_cap, PointAt(path, 0), d0[1], d0[2],
                                StrokeW, StrokeNcap, StrokeAa, StrokeU0, StrokeU1)
                /\ \A k \in 1..(path.count - 2) :
                      Segment(path, JoinOffset(path, k),
                              JoinVerts(PointAt(path, k - 1), PointAt(path, k))) =
                          stroke_join(<< >>, PointAt(path, k - 1), PointAt(path, k), StrokeW,
                                      StrokeU0, StrokeU1, StrokeNcap, StrokeAa,
                                      state.line_join)
                /\ Segment(path, JoinOffset(path, path.count - 1), CapVerts) =
                      cap_end(<< >>, state.line_cap, PointAt(path, path.count - 1),
                              d1[1], d1[2], StrokeW, StrokeNcap, StrokeAa, StrokeU0, StrokeU1)
                /\ path.stroke[1].count = JoinOffset(path, path.count - 1) + CapVerts
                /\ CapVerts = IF state.line_cap \in {"Butt", "Square"} THEN 4
                              ELSE 2 * StrokeNcap + 2

\* a sub-path of three points stroked with Round caps: 2*ncap + 2 vertices,
\* the join of the middle point, 2*ncap + 2 vertices
C25_Witness ==
    /\ state.line_cap = "Round"
    /\ \E i \in 1..Len(cache.paths) :
          /\ OpenStroked(cache.paths[i])
          /\ cache.paths[i].count = 3
          /\ cache.paths[i].stroke[1].count =
                (2 * StrokeNcap + 2) + JoinVerts(PointAt(cache.paths[i], 0),
                                                 PointAt(cache.paths[i], 1))
                + (2 * StrokeNcap + 2)
          /\ Segment(cache.paths[i], 1, 1)[1].u = HALF
          /\ Segment(cache.paths[i], 1, 1)[1].x = PointAt(cache.paths[i], 0).x
          /\ Segment(cache.paths[i], 1, 1)[1].y = PointAt(cache.paths[i], 0).y

\* the calls of normalize on the 1e-6 px grid recorded in the state
FineCalls == {trace.last[k] : k \in {j \in 1..Len(trace.last) : trace.last[j].fine}}
\* the calls of normalize on the grid of the stored points recorded in the state
GridCalls == {trace.last[k] : k \in {j \in 1..Len(trace.last) : ~trace.last[j].fine}}

\* (nx, ny) in units of 1/unit has length 1 up to the rounding of the grid
UnitLength(nx, ny, unit) ==
    /\ (nx * nx + ny * ny) * 100 >= unit * unit * 95
    /\ (nx * nx + ny * ny) * 100 <= unit * unit * 105

C27_RendererReadsUsedWidth ==
    (trace.strokes > 0 /\ trace.rendered # None) =>
        Stroke_line_width(trace.rendered[1]) = stroke_width(state.line_width, fringe)

\* where the vertex range of sub-path i ends
RangeEnd(i) == cache.paths[i].stroke[1].first + cache.paths[i].stroke[1].count

\* C28: after expand_stroke every sub-path has a stroke vertex range and no
\* fill range; the ranges follow one another in the order of the sub-paths
\* without gap or overlap, the first starting at 0, each next one where the
\* one before ended and the last ending at verts.len(); and every range has
\* an even number of vertices.
C28_RangesPartitionVertices ==
    (trace.strokes > 0 /\ status = "ok") =>
        /\ \A i \in 1..Len(cache.paths) :
              /\ cache.paths[i].stroke # None
              /\ cache.paths[i].fill = None
              /\ cache.paths[i].stroke[1].first = IF i = 1 THEN 0 ELSE RangeEnd(i - 1)
              /\ cache.paths[i].stroke[1].count % 2 = 0
        /\ Len(cache.verts) = IF cache.paths = << >> THEN 0 ELSE RangeEnd(Len(cache.paths))

\* two sub-paths were stroked and the range of the second starts where the
\* range of the first ends
C28_Witness ==
    /\ trace.strokes > 0
    /\ status = "ok"
    /\ Len(cache.paths) = 2
    /\ cache.paths[1].stroke[1].count > 0
    /\ cache.paths[2].stroke[1].first = cache.paths[1].stroke[1].count
    /\ cache.paths[2].stroke[1].count > 0

\* C29: with dist_tol > 0, after flatten_paths every sub-path that is not
\* closed has at least 2 points, a sub-path left with a single point having
\* been made a closed sub-path of count 0; so the open branch of
\* expand_stroke, which reads points[0] and points[1], stays inside the
\* sub-path.
C29_OpenSubPathHasTwoPoints ==
    (Flattened /\ dist_tol > 0) =>
        /\ \A i \in 1..Len(cache.paths) :
              /\ ~cache.paths[i].closed => cache.paths[i].count >= 2
              /\ cache.paths[i].count < 2 =>
                    (cache.paths[i].closed /\ cache.paths[i].count = 0)
        /\ status \notin {"expand_stroke:576", "expand_stroke:577"}

\* a stroke of an open sub-path of two points, made after flatten_paths had
\* closed a sub-path of a single point
C29_Witness ==
    /\ Flattened
    /\ dist_tol > 0
    /\ \E i \in 1..Len(cache.paths) : cache.paths[i].closed /\ cache.paths[i].count = 0
    /\ \E i \in 1..Len(cache.paths) :
          ~cache.paths[i].closed /\ cache.paths[i].count = 2 /\ cache.paths[i].stroke # None

\* the cache as the command loop of flatten_paths leaves it after the first k
\* commands
LoopCacheAfter(k) ==
    flatten_commands(observed(NewPathCache), SubSeq(commands, 1, k), 1, tess_tol, dist_tol)

\* in the cache after, made from the cache before by the BezierTo command b,
\* the last point is the end point of b or within dist_tol of it and carries
\* CORNER, and no point added before it carries CORNER
EndsOnCorner(before, after, b) ==
    /\ BelowDistTol(after.points[Len(after.points)].x, after.points[Len(after.points)].y,
                    b.x, b.y)
         \/ (after.points[Len(after.points)].x = b.x /\ after.points[Len(after.points)].y = b.y)
    /\ POINT_CORNER \in after.points[Len(after.points)].flags
    /\ \A k \in (Len(before.points) + 1)..(Len(after.points) - 1) :
          POINT_CORNER \notin after.points[k].flags

\* C30: after a BezierTo is processed on a sub-path that already has a point,
\* the last stored point of the sub-path is the end point of the curve, or a
\* point within dist_tol of it into which it was merged, and carries CORNER,
\* while the points added for the interior of the curve carry no CORNER; for
\* every tess_tol, and also when the depth cap is reached.
C30_CurveEndsOnCorner ==
    (trace.strokes > 0 /\ Len(commands) = 2 /\ commands[2].op = "BezierTo") =>
        \A before \in {LoopCacheAfter(1)} :
            Len(before.points) > 0 =>
                EndsOnCorner(before, flatten_command(before, commands[2], tess_tol, dist_tol),
                             commands[2])

====
